---- MODULE Spec2Model ----
(***************************************************************************)
(* AVaaSt: deploy orchestration (dependency graph, manifest builder,       *)
(* deploy state machine), the gateway (traffic shaper, router, XRPC        *)
(* handler, admin routes), the Controller, the Watcher, the query cache,    *)
(* the query engine and the subscription manager.                          *)
(*                                                                         *)
(* Specifications over one set of variables:                               *)
(*   Spec            the DeployOrchestrator driven by processDeploy and    *)
(*                   retireDeploy calls on the JavaScript event loop;      *)
(*                   SpecFair is the same on an event loop that keeps      *)
(*                   running;                                              *)
(*   SpecGraph       DependencyGraphBuilder.build / validate and           *)
(*                   ManifestBuilder.build over every small resolver;      *)
(*   SpecShaper      TrafficShaper.updateRules behind POST /admin/traffic; *)
(*   SpecSelect      TrafficShaper.selectDeploy under every accepted rule  *)
(*                   set, for sticky keys and random draws;                *)
(*   SpecGateway     XRPC requests to a gateway whose endpoints and rules  *)
(*                   change under them;                                    *)
(*   SpecAdmin       POST /admin/endpoints and POST /admin/traffic;        *)
(*   SpecController  Controller.handleEvent, onDeployStateChange and       *)
(*                   registerOnGateway;                                    *)
(*   SpecWatcher     Watcher.start / stop with the relay client, the       *)
(*                   firehose client and the poller; SpecWatcherFair is    *)
(*                   the same on an event loop that keeps running.         *)
(*   SpecPoller      Poller.pollCollection over every listing;             *)
(*   SpecRounds      Poller.poll rounds started by the timer while earlier *)
(*                   rounds still await the PDS;                           *)
(*   SpecOrder       ManifestBuilder.build over graphs of three resources; *)
(*   SpecCache       QueryCache.get and set as time passes;                *)
(*   SpecQuery       QueryEngine.executePlan on a join, group, select,     *)
(*                   orderBy pipeline;                                     *)
(*   SpecLimit       QueryPlanner.plan and executePlan on the limit and    *)
(*                   offset of a query;                                    *)
(*   SpecSubscription  SubscriptionManager registrations, subscribers and  *)
(*                   record changes;                                       *)
(*   SpecRetry       retry(fn, options) around a call that fails or        *)
(*                   succeeds;                                             *)
(*   SpecPool        FunctionPool.execute calls and the exits of the       *)
(*                   sandbox processes they start;                         *)
(*   SpecResolve     Controller.resolveQuery on internal query requests    *)
(*                   while deploys are processed and retired.              *)
(***************************************************************************)
EXTENDS Integers, Sequences, FiniteSets, TLC

\* ------------------------------------------------------------------ bounds

\* Largest maxActiveDeploys a run is configured with.
MaxK == 2
\* processDeploy and retireDeploy calls made in one run.
MaxOps == 3
\* processDeploy / retireDeploy calls that may be in flight together.
MaxCalls == 2
\* Longest dependencies array of a resolved node.
MaxDeps == 1
\* Longest endpoints array of a deploy record given to the graph builder.
MaxEndpoints == 2
\* Longest rules array posted to /admin/traffic.
MaxRules == 2
\* Watcher events and deploy state changes the Controller handles in one run.
MaxEvents == 2
\* Largest sequence number a firehose message carries.
MaxSeq == 2
\* Longest listing a PDS returns for one collection.
MaxRecords == 2
\* Largest maxEntries a QueryCache is constructed with.
MaxCacheEntries == 2
\* Seconds that pass in one run of the cache.
MaxClock == 2
\* Records the left source (avast) and the right source (aye) of a query hold.
MaxLeft == 2
MaxRight == 3
\* registerSubscription calls made in one run.
MaxRegistrations == 2
\* Rows the steps before the limit step produce.
MaxRows == 3
\* Largest limit and offset of a query.
MaxLimit == 2
\* Largest maxAttempts retry is called with.
MaxAttempts == 3
\* Largest options.maxProcesses of a FunctionPool.
MaxProcesses == 2
\* FunctionPool.execute calls made in one run.
MaxRequests == 4
\* Connections handed to addSubscriber in one run.
MaxConnections == 2
\* Poller.poll calls made in one run: the initial one and the timer's.
MaxRounds == 3
\* Operations in one firehose message.
MaxFrameOps == 2

\* ------------------------------------------------------------------ state

VARIABLES
    \* ManifestBuilder.build (SpecGraph)
    resolver,           \* nodeResolver: ResourceRef -> DependencyNode | undefined
    mbRecord,           \* the DeployRecord handed to ManifestBuilder.build
    mbPhase,            \* position inside ManifestBuilder.build
    mbGraph,            \* const graph
    mbErrors,           \* const errors
    mbManifest,         \* the manifest returned
    \* DeployOrchestrator and the Controller state it reads and writes (Spec)
    maxActiveDeploys,   \* options.maxActiveDeploys ?? 2
    deploys,            \* DeployOrchestrator.deploys: Map<refKey, DeployStatus>
    calls,              \* the processDeploy / retireDeploy calls in flight
    running,            \* the call the event loop is executing, 0 when it is free
    now,                \* the clock new Date() reads
    computedRecords,    \* Controller.computedRecords: the cids stored
    currentEndpoints,   \* Controller.currentEndpoints
    ops,                \* processDeploy and retireDeploy calls made so far
    \* Gateway (SpecShaper)
    rules,              \* TrafficShaper.rules
    request,            \* the body of the last POST /admin/traffic
    response,           \* the response to the last POST /admin/traffic
    selected,           \* what the last selectDeploy returned
    \* Gateway: DynamicRouter and the XRPC handler (SpecGateway)
    registeredEndpoints,\* DynamicRouter.registeredEndpoints: Map<name, DeployedEndpoint>
    gwRequest,          \* the last POST /admin/endpoints or /xrpc/{name} request
    gwResponse,         \* the response to it
    routed,             \* per sticky key, the deploy chosen under the rules in force
    \* Controller (SpecController)
    gatewayUrl,         \* options.gatewayUrl, "" when it is not configured
    currentTrafficRules,\* Controller.currentTrafficRules
    registrations,      \* the registerOnGateway calls made, each with its position
    pushes,             \* the requests sent to the gateway's admin routes, in order
    processDeployCalls, \* the processDeploy invocations handleEvent made
    ctlEvent,           \* the event or state change handled last
    \* Watcher (SpecWatcher)
    watcherOptions,     \* WatcherOptions, with the runtime's WebSocket support
    starting,           \* position of the Watcher.start call
    jetstream,          \* Watcher.jetstream: the JetstreamClient, if created
    firehose,           \* Watcher.firehose: the FirehoseClient, if created
    poller,             \* Watcher.poller: the Poller, if created
    emitted,            \* the events handed to options.onEvent
    stopped,            \* Watcher.stop was called
    cursorStore,        \* CursorStore: the value stored under the key firehose
    \* QueryCache (SpecCache)
    cache,              \* QueryCache.cache: Map<key, CacheEntry>, in insertion order
    maxEntries,         \* QueryCache.maxEntries
    dateNow,            \* what Date.now() returns, in seconds
    cacheResult,        \* the last get call and what it returned
    \* QueryEngine.executePlan (SpecQuery)
    queryPlan,          \* the plan: its join type and the direction of its orderBy
    pdsRecords,         \* what fetchRecords returns for the two sources of the plan
    pipelineStep,       \* the pipeline step executePlan is to run next
    queryRows,          \* let rows
    \* SubscriptionManager (SpecSubscription)
    definitions,        \* Map<name, SubscriptionDefinition>
    subscribers,        \* Map<subscriberId, SubscriberConnection>: the ids it holds
    collectionToSubscriptions, \* Map<collection, name[]>
    subscriptionToSubscribers, \* Map<name, Set<subscriberId>>, each set in insertion order
    broken,             \* the connections whose socket no longer takes a write
    notified,           \* the record change handled last and the sends it made
    connections,        \* the connections given to addSubscriber: id, endpointName, open
    \* TrafficShaper.selectDeploy (SpecSelect)
    draw,               \* the last selectDeploy: this.rules, const value, where it returned
    \* retry (SpecRetry)
    retrying,           \* one retry(fn, options) call: opts, attempt, delay, lastError
    \* FunctionPool (SpecPool)
    pool,               \* maxProcesses, activeCount, queue, and the deno child processes
    \* Controller.resolveQuery (SpecResolve)
    queryCall,          \* the last internal query request and what resolveQuery did
    \* Poller.poll (SpecRounds)
    rounds,             \* the poll calls awaiting the PDS, and the event sent last for a key
    \* FirehoseClient.processMessage (SpecWatcher)
    frameCall           \* the firehose message handled last: seq stored, events decoded, handed

graphVars == <<resolver, mbRecord, mbPhase, mbGraph, mbErrors, mbManifest>>
orchVars ==
    <<maxActiveDeploys, deploys, calls, running, now, computedRecords, currentEndpoints, ops>>
shaperVars == <<rules, request, response, selected>>
gatewayVars == <<registeredEndpoints, gwRequest, gwResponse, routed>>
controllerVars ==
    <<gatewayUrl, currentTrafficRules, registrations, pushes, processDeployCalls, ctlEvent>>
watcherVars ==
    <<watcherOptions, starting, jetstream, firehose, poller, emitted, stopped, cursorStore>>
cacheVars == <<cache, maxEntries, dateNow, cacheResult>>
queryVars == <<queryPlan, pdsRecords, pipelineStep, queryRows>>
subscriptionVars ==
    <<definitions, subscribers, collectionToSubscriptions, subscriptionToSubscribers,
      broken, notified, connections>>
selectVars == <<draw>>
retryVars == <<retrying>>
poolVars == <<pool>>
resolveVars == <<queryCall>>
roundVars == <<rounds>>
frameVars == <<frameCall>>
utilVars == <<selectVars, retryVars, poolVars, resolveVars, roundVars, frameVars>>
engineVars == <<cacheVars, queryVars, subscriptionVars, utilVars>>
restVars == <<gatewayVars, controllerVars, watcherVars, engineVars>>
vars == <<graphVars, orchVars, shaperVars, restVars>>

\* ------------------------------------------------------- sequence helpers

Range(s) == { s[i] : i \in 1..Len(s) }

SeqsUpTo(S, n) == UNION { [1..k -> S] : k \in 0..n }

RECURSIVE Concat(_)
Concat(ss) == IF ss = <<>> THEN <<>> ELSE Head(ss) \o Concat(Tail(ss))

\* A JavaScript Map, kept as its entries in insertion order.
MapHas(m, k) == \E i \in 1..Len(m) : m[i].key = k
MapGet(m, k) == m[CHOOSE i \in 1..Len(m) : m[i].key = k].value
MapKeys(m) == [i \in 1..Len(m) |-> m[i].key]
MapSet(m, k, v) ==
    IF MapHas(m, k)
    THEN [i \in 1..Len(m) |-> IF m[i].key = k THEN [key |-> k, value |-> v] ELSE m[i]]
    ELSE Append(m, [key |-> k, value |-> v])

\* ------------------------------------------------------------ ResourceRef

\* An absent optional ResourceRef (undefined).
NoRef == [did |-> "undefined", cid |-> "undefined"]

\* Resources a deploy's endpoints and dependencies may reference.
R1 == [did |-> "did:a", cid |-> "c1"]
R2 == [did |-> "did:a", cid |-> "c2"]
R3 == [did |-> "did:b", cid |-> "c1"]
ResourceRefs == {R1, R2, R3}
\* Resources for which the resolver may know a record; R3 never resolves.
Resolvable == {R1, R2}

refKey(ref) == <<ref.did, ":", ref.cid>>

\* ------------------------------------------------------------ idle states

\* An absent sticky key: selectDeploy(undefined).
NoKey == <<>>

\* No request handled yet, and no response given.
NoGwRequest ==
    [op |-> "none", hasEndpoints |-> FALSE, endpoints |-> <<>>, name |-> "",
     httpMethod |-> "", did |-> NoKey, stream |-> ""]
NoGwResponse ==
    [status |-> 0, error |-> "", count |-> 0, proxied |-> "", deployRef |-> NoRef]

\* A Gateway after its constructor: no endpoint registered, nothing routed.
InitGatewayIdle ==
    /\ registeredEndpoints = <<>>
    /\ gwRequest = NoGwRequest
    /\ gwResponse = NoGwResponse
    /\ routed = [rules |-> <<>>, byKey |-> {}, again |-> {}]

\* No event and no state change handled yet.
NoCtlEvent ==
    [kind |-> "none", type |-> "", collection |-> "", did |-> "", rkey |-> "", cid |-> "",
     hasRecord |-> FALSE, deployRecord |-> [version |-> "", hasEndpoints |-> FALSE, endpoints |-> <<>>],
     trafficRules |-> <<>>, state |-> "", hasManifest |-> FALSE, endpoints |-> <<>>]

\* A Controller after its constructor.
InitControllerIdle ==
    /\ gatewayUrl = ""
    /\ currentTrafficRules = <<>>
    /\ registrations = <<>>
    /\ pushes = <<>>
    /\ processDeployCalls = <<>>
    /\ ctlEvent = NoCtlEvent

\* getCursor of a key that has no row, and a message without seq: undefined.
NoCursor == -1

\* A client that was not created: no socket, not running, the first delay;
\* cursor is options.cursor and subscribed the cursor of the last doConnect.
NoClient ==
    [pc |-> "none", running |-> FALSE, ws |-> "none", reconnectDelay |-> 1000,
     errored |-> FALSE, cursor |-> NoCursor, subscribed |-> NoCursor]
\* A Poller that was not created or not started: no timer, nothing known;
\* polled is the last pollCollection that completed, with what it emitted.
NoPoller ==
    [timer |-> FALSE, knownCids |-> <<>>,
     polled |-> [collection |-> "", listing |-> <<>>, events |-> <<>>]]

\* A Watcher after its constructor, with the defaults of its options.
InitWatcherIdle ==
    /\ watcherOptions =
          [jetstreamUrl |-> FALSE, useFirehose |-> TRUE, extraCollections |-> {},
           hasWebSocket |-> TRUE, onErrorThrows |-> FALSE]
    /\ starting = "notCalled"
    /\ jetstream = NoClient
    /\ firehose = NoClient
    /\ poller = NoPoller
    /\ emitted = {}
    /\ stopped = FALSE
    /\ cursorStore = NoCursor

\* The value get returns on a miss.
Undefined == "undefined"

NoCacheResult == [key |-> "", version |-> "", had |-> FALSE, result |-> Undefined]

\* A QueryCache after its constructor, with the default capacity.
InitCacheIdle ==
    /\ cache = <<>>
    /\ maxEntries = 10000
    /\ dateNow = 0
    /\ cacheResult = NoCacheResult

\* A QueryEngine that executes nothing.
InitQueryIdle ==
    /\ queryPlan = [joinType |-> "left", direction |-> "asc"]
    /\ pdsRecords = [avast |-> <<>>, aye |-> <<>>]
    /\ pipelineStep = "idle"
    /\ queryRows = <<>>

NoChange == [collection |-> "", record |-> [room |-> ""], sends |-> <<>>]

\* A SubscriptionManager after construction.
InitSubscriptionIdle ==
    /\ definitions = <<>>
    /\ subscribers = {}
    /\ collectionToSubscriptions = <<>>
    /\ subscriptionToSubscribers = <<>>
    /\ broken = {}
    /\ notified = NoChange
    /\ connections = <<>>

NoDraw == [drawn |-> FALSE, rules |-> <<>>, value |-> 0, returned |-> "none"]

InitSelectIdle == draw = NoDraw

NoRetry ==
    [opts |-> [maxAttempts |-> 0, baseDelayMs |-> 0, maxDelayMs |-> 0, backoffMultiplier |-> 2],
     pc |-> "idle", attempt |-> 0, delay |-> 0, lastError |-> "undefined",
     invoked |-> <<>>, waited |-> <<>>, settled |-> "undefined"]

InitRetryIdle == retrying = NoRetry

NoPool ==
    [maxProcesses |-> 0, activeCount |-> 0, queue |-> <<>>, children |-> {},
     spawned |-> <<>>, settled |-> {}, executed |-> 0]

InitPoolIdle == pool = NoPool

NoResolved ==
    [deployRef |-> [did |-> "undefined", cid |-> "undefined"], endpointName |-> "",
     executed |-> FALSE, query |-> ""]

InitResolveIdle == queryCall = NoResolved

\* No poll call was made; polls holds, for each call in flight, the position
\* in options.collections of the collection it awaits.
NoRounds == [polls |-> <<>>, ticks |-> 0, last |-> <<>>, gone |-> {}]

InitRoundsIdle == rounds = NoRounds

\* No firehose message was handled.
NoFrame == [stored |-> FALSE, decoded |-> 0, handed |-> 0]

InitFrameIdle == frameCall = NoFrame

InitUtilIdle ==
    /\ InitSelectIdle /\ InitRetryIdle /\ InitPoolIdle /\ InitResolveIdle
    /\ InitRoundsIdle /\ InitFrameIdle

InitEngineIdle == InitCacheIdle /\ InitQueryIdle /\ InitSubscriptionIdle /\ InitUtilIdle

InitRestIdle == InitGatewayIdle /\ InitControllerIdle /\ InitWatcherIdle /\ InitEngineIdle

\* ------------------------------------------------------- dependency graph

\* Dependency values: a reference to another resource, a collection with its
\* NSID, a collection without one.
DepOn(r) == [name |-> "dep", kind |-> "computed", ref |-> r, collection |-> ""]
DepCollection == [name |-> "coll", kind |-> "collection", ref |-> NoRef, collection |-> "app.coll"]
DepCollectionNoNsid == [name |-> "coll", kind |-> "collection", ref |-> NoRef, collection |-> ""]
Dependencies == { DepOn(r) : r \in ResourceRefs } \cup {DepCollection, DepCollectionNoNsid}

NodeKinds == {"computed", "function"}

\* resolveNode returned undefined.
NoNode == [ref |-> NoRef, kind |-> "undefined", dependencies |-> <<>>]

NodesOf(r) ==
    { [ref |-> r, kind |-> k, dependencies |-> d] :
        k \in NodeKinds, d \in SeqsUpTo(Dependencies, MaxDeps) }

Resolvers ==
    { f \in [ResourceRefs -> UNION { NodesOf(r) : r \in Resolvable } \cup {NoNode}] :
        \A r \in ResourceRefs :
            /\ f[r] # NoNode => f[r].ref = r
            /\ r \notin Resolvable => f[r] = NoNode }

EndpointNames == <<"ep1", "ep2", "ep3", "ep4">>

\* A deploy record's endpoints array over the given refs; names are unique
\* within a deploy.  endpoints may be missing: the record is unvalidated JSON.
EndpointLists(n) ==
    { [i \in 1..Len(rs) |-> [name |-> EndpointNames[i], kind |-> "computed", ref |-> rs[i]]] :
        rs \in SeqsUpTo(ResourceRefs, n) }

NoRecord == [version |-> "", hasEndpoints |-> FALSE, endpoints |-> <<>>]

\* if (dep.ref && dep.kind !== "collection")
FollowsRef(dep) == dep.ref # NoRef /\ dep.kind # "collection"

DepTargets(node) ==
    LET f == SelectSeq(node.dependencies, FollowsRef)
    IN  [i \in 1..Len(f) |-> f[i].ref]

\* The BFS loop of DependencyGraphBuilder.build: the nodes Map it leaves.
RECURSIVE Discover(_, _, _, _)
Discover(queue, visited, nodes, resolve) ==
    IF queue = <<>> THEN nodes
    ELSE LET ref == Head(queue)
             key == refKey(ref)
             node == resolve[ref]
         IN  IF key \in visited THEN Discover(Tail(queue), visited, nodes, resolve)
             ELSE IF node = NoNode
                  THEN Discover(Tail(queue), visited \cup {key}, nodes, resolve)
                  ELSE Discover(Tail(queue) \o DepTargets(node), visited \cup {key},
                                MapSet(nodes, key, node), resolve)

\* const visit = (key) => ...: marks is [temp, perm, sorted].
RECURSIVE visit(_, _, _)
RECURSIVE visitAll(_, _, _)
\* visit as if it pushed the key before it visited the dependencies.
visitPreOrder(key, marks, nodes) ==
    IF key \in marks.perm THEN marks
    ELSE IF key \in marks.temp THEN marks
    ELSE LET m1 == [marks EXCEPT !.temp = @ \cup {key}, !.sorted = Append(@, key)]
             m2 == IF MapHas(nodes, key)
                   THEN visitAll([i \in 1..Len(DepTargets(MapGet(nodes, key))) |->
                                     refKey(DepTargets(MapGet(nodes, key))[i])], m1, nodes)
                   ELSE m1
         IN  [temp |-> m2.temp \ {key}, perm |-> m2.perm \cup {key}, sorted |-> m2.sorted]

visit(key, marks, nodes) ==
    IF key \in marks.perm THEN marks
    ELSE IF key \in marks.temp THEN marks
    ELSE LET m1 == [marks EXCEPT !.temp = @ \cup {key}]
             m2 == IF MapHas(nodes, key)
                   THEN visitAll([i \in 1..Len(DepTargets(MapGet(nodes, key))) |->
                                     refKey(DepTargets(MapGet(nodes, key))[i])], m1, nodes)
                   ELSE m1
         IN  [temp |-> m2.temp \ {key}, perm |-> m2.perm \cup {key},
              sorted |-> Append(m2.sorted, key)]

visitAll(keys, marks, nodes) ==
    IF keys = <<>> THEN marks
    ELSE visitAll(Tail(keys), visit(Head(keys), marks, nodes), nodes)

\* DependencyGraphBuilder.build
GraphBuild(endpoints, resolve) ==
    LET nodes == Discover([i \in 1..Len(endpoints) |-> endpoints[i].ref], {}, <<>>, resolve)
        marks == visitAll(MapKeys(nodes), [temp |-> {}, perm |-> {}, sorted |-> <<>>], nodes)
    IN  [endpoints |-> endpoints, nodes |-> nodes, order |-> marks.sorted]

NoGraph == [endpoints |-> <<>>, nodes |-> <<>>, order |-> <<>>]

EndpointError(graph, e) ==
    IF MapHas(graph.nodes, refKey(e.ref)) THEN <<>>
    ELSE << [error |-> "unknown resource", at |-> <<e.name>>, key |-> refKey(e.ref)] >>

DependencyError(graph, key, dep) ==
    (IF FollowsRef(dep) /\ ~MapHas(graph.nodes, refKey(dep.ref))
     THEN << [error |-> "unresolved resource", at |-> key, key |-> refKey(dep.ref)] >>
     ELSE <<>>)
    \o
    (IF dep.kind = "collection" /\ dep.collection = ""
     THEN << [error |-> "collection without NSID", at |-> key, key |-> key] >>
     ELSE <<>>)

NodeErrors(graph, entry) ==
    Concat([i \in 1..Len(entry.value.dependencies) |->
               DependencyError(graph, entry.key, entry.value.dependencies[i])])

\* validate without its check of the endpoint refs.
validateDependenciesOnly(graph) ==
    Concat([i \in 1..Len(graph.nodes) |-> NodeErrors(graph, graph.nodes[i])])

\* DependencyGraphBuilder.validate
validate(graph) ==
    Concat([i \in 1..Len(graph.endpoints) |-> EndpointError(graph, graph.endpoints[i])])
    \o Concat([i \in 1..Len(graph.nodes) |-> NodeErrors(graph, graph.nodes[i])])

\* ------------------------------------------------------- manifest builder

NoError == [name |-> "", reasons |-> <<>>]
NoManifest ==
    [deployRef |-> NoRef, version |-> "", endpoints |-> <<>>, resources |-> <<>>,
     resolvedAt |-> -1]

\* The loop over graph.order: blobs holds the keys whose code blob the fetcher
\* delivered (a function node without a code ref, or whose getBlob failed,
\* gets none).
RECURSIVE Resolve(_, _, _, _)
Resolve(order, graph, blobs, resources) ==
    IF order = <<>> THEN resources
    ELSE LET key == Head(order)
         IN  IF ~MapHas(graph.nodes, key) THEN Resolve(Tail(order), graph, blobs, resources)
             ELSE LET node == MapGet(graph.nodes, key)
                      resolved ==
                          [ref |-> node.ref, kind |-> node.kind, record |-> node,
                           dependencies |-> node.dependencies,
                           codeBlob |-> IF node.kind = "function" /\ key \in blobs
                                        THEN "blob" ELSE ""]
                  IN  Resolve(Tail(order), graph, blobs, MapSet(resources, key, resolved))

MakeManifest(deployRef, deployRecord, graph, blobs, t) ==
    [deployRef |-> deployRef, version |-> deployRecord.version,
     endpoints |-> deployRecord.endpoints,
     resources |-> Resolve(graph.order, graph, blobs, <<>>),
     resolvedAt |-> t]

ValidationFailed(errors) == [name |-> "Deploy validation failed", reasons |-> errors]
\* deployRecord.endpoints is undefined: endpoints.map throws.
TypeError == [name |-> "TypeError", reasons |-> <<>>]

\* ManifestBuilder.build as one call: the manifest, or the exception thrown.
ManifestBuild(deployRef, deployRecord, resolve, blobs, t) ==
    IF ~deployRecord.hasEndpoints
    THEN [threw |-> TRUE, error |-> TypeError, manifest |-> NoManifest]
    ELSE LET graph == GraphBuild(deployRecord.endpoints, resolve)
             errors == validate(graph)
         IN  IF Len(errors) > 0
             THEN [threw |-> TRUE, error |-> ValidationFailed(errors), manifest |-> NoManifest]
             ELSE [threw |-> FALSE, error |-> NoError,
                   manifest |-> MakeManifest(deployRef, deployRecord, graph, blobs, t)]

NoBuild == [threw |-> FALSE, error |-> NoError, manifest |-> NoManifest]

FunctionKeys(graph) ==
    { graph.nodes[i].key : i \in { j \in 1..Len(graph.nodes) : graph.nodes[j].value.kind = "function" } }

\* The deploy whose manifest SpecGraph builds.
D1 == [did |-> "did:a", cid |-> "d1"]
D2 == [did |-> "did:a", cid |-> "d2"]
D3 == [did |-> "did:a", cid |-> "d3"]
DeployRefs == {D1, D2, D3}

\* ManifestBuilder.build, a statement at a time.
MbGraph ==
    /\ mbPhase = "start"
    /\ IF mbRecord.hasEndpoints
       THEN /\ mbGraph' = GraphBuild(mbRecord.endpoints, resolver)
            /\ mbPhase' = "graph"
       ELSE /\ mbGraph' = mbGraph
            /\ mbPhase' = "threw"
    /\ UNCHANGED <<resolver, mbRecord, mbErrors, mbManifest>>
    /\ UNCHANGED <<orchVars, shaperVars, restVars>>

MbValidate ==
    /\ mbPhase = "graph"
    /\ mbErrors' = validate(mbGraph)
    /\ mbPhase' = "validated"
    /\ UNCHANGED <<resolver, mbRecord, mbGraph, mbManifest>>
    /\ UNCHANGED <<orchVars, shaperVars, restVars>>

MbThrow ==
    /\ mbPhase = "validated"
    /\ Len(mbErrors) > 0
    /\ mbPhase' = "threw"
    /\ UNCHANGED <<resolver, mbRecord, mbGraph, mbErrors, mbManifest>>
    /\ UNCHANGED <<orchVars, shaperVars, restVars>>

MbResolve ==
    /\ mbPhase = "validated"
    /\ ~(Len(mbErrors) > 0)
    /\ \E blobs \in SUBSET FunctionKeys(mbGraph) :
           mbManifest' = MakeManifest(D1, mbRecord, mbGraph, blobs, 0)
    /\ mbPhase' = "built"
    /\ UNCHANGED <<resolver, mbRecord, mbGraph, mbErrors>>
    /\ UNCHANGED <<orchVars, shaperVars, restVars>>

InitGraphIdle ==
    /\ resolver = [r \in ResourceRefs |-> NoNode]
    /\ mbRecord = NoRecord
    /\ mbPhase = "idle"
    /\ mbGraph = NoGraph
    /\ mbErrors = <<>>
    /\ mbManifest = NoManifest

InitBuilder ==
    /\ resolver \in Resolvers
    /\ mbRecord \in { [version |-> "v1", hasEndpoints |-> TRUE, endpoints |-> es] :
                         es \in EndpointLists(MaxEndpoints) }
                    \cup { [version |-> "v1", hasEndpoints |-> FALSE, endpoints |-> <<>>] }
    /\ mbPhase = "start"
    /\ mbGraph = NoGraph
    /\ mbErrors = <<>>
    /\ mbManifest = NoManifest

NextGraph == MbGraph \/ MbValidate \/ MbThrow \/ MbResolve

\* Resolvers under which each of the three resources may resolve, to a
\* computed node that depends on resources only.
RefResolvers ==
    { f \in [ResourceRefs ->
               { [ref |-> r, kind |-> "computed", dependencies |-> d] :
                   r \in ResourceRefs,
                   d \in SeqsUpTo({ DepOn(t) : t \in ResourceRefs }, MaxDeps) }
               \cup {NoNode}] :
        \A r \in ResourceRefs : f[r] # NoNode => f[r].ref = r }

\* ManifestBuilder.build is called on a deploy record over such resources.
InitRefBuilder ==
    /\ resolver \in RefResolvers
    /\ mbRecord \in { [version |-> "v1", hasEndpoints |-> TRUE, endpoints |-> es] :
                         es \in EndpointLists(MaxEndpoints) }
    /\ mbPhase = "start"
    /\ mbGraph = NoGraph
    /\ mbErrors = <<>>
    /\ mbManifest = NoManifest

\* ---------------------------------------------------- deploy orchestrator

DeployStates ==
    {"PENDING", "FETCHING", "RESOLVING", "BUILDING", "ACTIVATING", "ACTIVE",
     "DRAINING", "RETIRED", "FAILED"}

\* The deploy records a deploy event may carry: one endpoint on the computed
\* record c1, or a body without an endpoints array.
RecordOk ==
    [version |-> "v1", hasEndpoints |-> TRUE,
     endpoints |-> << [name |-> "ep1", kind |-> "computed", ref |-> R1] >>]
RecordMalformed == [version |-> "v1", hasEndpoints |-> FALSE, endpoints |-> <<>>]
DeployRecords == {RecordOk, RecordMalformed}

Cids == {"c1"}

\* Controller.resolveNode
resolveNode(records) ==
    [r \in ResourceRefs |->
        IF r.cid \in records
        THEN [ref |-> r, kind |-> "computed", dependencies |-> <<>>]
        ELSE NoNode]

Calls == 1..MaxCalls

IdleCall == [op |-> "none", ref |-> NoRef, record |-> NoRecord, pc |-> "idle", built |-> NoBuild]

\* The first free slot takes the next call.
FreeSlot(c) == /\ calls[c].pc = "idle"
               /\ \A b \in Calls : b < c => calls[b].pc # "idle"

\* new Date() at an activation: the clock may have advanced since the last one.
ClockReads == {now, now + 1}

\* Deploy refs are interchangeable: a run meets them in the order D1, D2, D3.
RefOrder == <<D1, D2, D3>>
NextRefs ==
    { RefOrder[i] : i \in { j \in 1..Len(RefOrder) :
                              \A k \in 1..(j - 1) : MapHas(deploys, refKey(RefOrder[k])) } }

\* this.deploys.get(key), for a key that may be absent
KnownDeploy(ref) == MapHas(deploys, refKey(ref))
Status(ref) == MapGet(deploys, refKey(ref))
StateIn(ds, ref) == IF MapHas(ds, refKey(ref)) THEN MapGet(ds, refKey(ref)).state ELSE "none"
StateOf(ref) == StateIn(deploys, ref)

\* DeployOrchestrator.setState: the deploys Map it leaves.
setState(ds, deployRef, state, manifest, t) ==
    LET key == refKey(deployRef)
        status == IF MapHas(ds, key) THEN MapGet(ds, key)
                  ELSE [ref |-> deployRef, state |-> state, manifest |-> NoManifest,
                        error |-> NoError, activatedAt |-> -1, retiredAt |-> -1]
    IN  MapSet(ds, key,
               [status EXCEPT
                   !.state = state,
                   !.manifest = IF manifest # NoManifest THEN manifest ELSE @,
                   !.activatedAt = IF state = "ACTIVE" THEN t ELSE @,
                   !.retiredAt = IF state = "RETIRED" THEN t ELSE @])

\* Controller.onDeployStateChange: the endpoints it keeps for the gateway.
onDeployStateChange(endpoints, state, manifest) ==
    IF state = "ACTIVE" /\ manifest # NoManifest THEN manifest.endpoints ELSE endpoints

IsActive(entry) == entry.value.state = "ACTIVE"

\* DeployOrchestrator.getActiveDeploys
getActiveDeploys(ds) ==
    LET a == SelectSeq(ds, IsActive) IN [i \in 1..Len(a) |-> a[i].value]

\* A step of call c that runs setState(ref, state, manifest) and moves to pc.
SetStateStep(c, state, manifest, pc, t) ==
    /\ deploys' = setState(deploys, calls[c].ref, state, manifest, t)
    /\ currentEndpoints' = onDeployStateChange(currentEndpoints, state, manifest)
    /\ calls' = [calls EXCEPT ![c] = IF pc = "idle" THEN IdleCall ELSE [@ EXCEPT !.pc = pc]]
    /\ running' = IF pc = "idle" THEN 0 ELSE c

\* Controller.handleEvent, a create event of the computed collection.
HandleComputed(cid) ==
    /\ running = 0
    /\ computedRecords' = computedRecords \cup {cid}
    /\ UNCHANGED <<maxActiveDeploys, deploys, calls, running, now, currentEndpoints, ops>>
    /\ UNCHANGED <<graphVars, shaperVars, restVars>>

\* processDeploy is called: setState(deployRef, "PENDING").
ProcessDeploy(c, ref, record) ==
    /\ running = 0
    /\ FreeSlot(c)
    /\ ops < MaxOps
    /\ deploys' = setState(deploys, ref, "PENDING", NoManifest, now)
    /\ currentEndpoints' = onDeployStateChange(currentEndpoints, "PENDING", NoManifest)
    /\ calls' = [calls EXCEPT ![c] =
                    [op |-> "processDeploy", ref |-> ref, record |-> record,
                     pc |-> "fetching", built |-> NoBuild]]
    /\ running' = c
    /\ ops' = ops + 1
    /\ UNCHANGED <<maxActiveDeploys, now, computedRecords>>
    /\ UNCHANGED <<graphVars, shaperVars, restVars>>

Fetching(c) ==
    /\ running = c /\ calls[c].pc = "fetching"
    /\ SetStateStep(c, "FETCHING", NoManifest, "resolving", now)
    /\ UNCHANGED <<maxActiveDeploys, now, computedRecords, ops>>
    /\ UNCHANGED <<graphVars, shaperVars, restVars>>

Resolving(c) ==
    /\ running = c /\ calls[c].pc = "resolving"
    /\ SetStateStep(c, "RESOLVING", NoManifest, "building", now)
    /\ UNCHANGED <<maxActiveDeploys, now, computedRecords, ops>>
    /\ UNCHANGED <<graphVars, shaperVars, restVars>>

Building(c) ==
    /\ running = c /\ calls[c].pc = "building"
    /\ SetStateStep(c, "BUILDING", NoManifest, "build", now)
    /\ UNCHANGED <<maxActiveDeploys, now, computedRecords, ops>>
    /\ UNCHANGED <<graphVars, shaperVars, restVars>>

\* await this.manifestBuilder.build(...): build runs to its end (the resolver
\* returns computed nodes only, so it fetches no blob) and the call is suspended
\* until a later turn of the event loop; other calls may run meanwhile.
Build(c) ==
    /\ running = c /\ calls[c].pc = "build"
    /\ calls' = [calls EXCEPT ![c] =
          [@ EXCEPT !.pc = "await",
                    !.built = ManifestBuild(calls[c].ref, calls[c].record,
                                            resolveNode(computedRecords), {}, now)]]
    /\ running' = 0
    /\ UNCHANGED <<maxActiveDeploys, deploys, now, computedRecords, currentEndpoints, ops>>
    /\ UNCHANGED <<graphVars, shaperVars, restVars>>

\* Where a call whose build threw would resume if the await were not in the
\* try block: its promise rejects.
AfterBuildUncaught(built) == IF built.threw THEN "rejected" ELSE "activating"

\* try { ... await build ... } catch (err) { ... }: where the call resumes.
AfterBuild(built) == IF built.threw THEN "catch" ELSE "activating"

\* The awaited promise settles and the call resumes, in the try block or in
\* its catch clause.
Resume(c) ==
    /\ running = 0 /\ calls[c].pc = "await"
    /\ calls' = [calls EXCEPT ![c] = [@ EXCEPT !.pc = AfterBuild(calls[c].built)]]
    /\ running' = c
    /\ UNCHANGED <<maxActiveDeploys, deploys, now, computedRecords, currentEndpoints, ops>>
    /\ UNCHANGED <<graphVars, shaperVars, restVars>>

Activating(c) ==
    /\ running = c /\ calls[c].pc = "activating"
    /\ SetStateStep(c, "ACTIVATING", calls[c].built.manifest, "drain", now)
    /\ UNCHANGED <<maxActiveDeploys, now, computedRecords, ops>>
    /\ UNCHANGED <<graphVars, shaperVars, restVars>>

\* The drain with its limit test off by one.
DrainTargetAboveMax(ds, maxActive) ==
    LET activeDeploys == getActiveDeploys(ds)
    IN  IF Len(activeDeploys) > maxActive /\ Len(activeDeploys) > 0
        THEN activeDeploys[1].ref
        ELSE NoRef

\* The drain with the default limit in place of the configured one.
DrainTargetDefaultMax(ds, maxActive) ==
    LET activeDeploys == getActiveDeploys(ds)
    IN  IF Len(activeDeploys) >= 2 /\ Len(activeDeploys) > 0
        THEN activeDeploys[1].ref
        ELSE NoRef

\* Drain old deploys if at max: the deploy that is moved to DRAINING, NoRef
\* when none is.
DrainTarget(ds, maxActive) ==
    LET activeDeploys == getActiveDeploys(ds)
    IN  IF Len(activeDeploys) >= maxActive /\ Len(activeDeploys) > 0
        THEN activeDeploys[1].ref
        ELSE NoRef

Drain(c) ==
    /\ running = c /\ calls[c].pc = "drain"
    /\ LET oldest == DrainTarget(deploys, maxActiveDeploys)
       IN  /\ deploys' = IF oldest # NoRef
                         THEN setState(deploys, oldest, "DRAINING", NoManifest, now)
                         ELSE deploys
           /\ currentEndpoints' = currentEndpoints
    /\ calls' = [calls EXCEPT ![c] = [@ EXCEPT !.pc = "active"]]
    /\ UNCHANGED <<maxActiveDeploys, running, now, computedRecords, ops>>
    /\ UNCHANGED <<graphVars, shaperVars, restVars>>

Active(c) ==
    /\ running = c /\ calls[c].pc = "active"
    /\ \E t \in ClockReads :
          /\ now' = t
          /\ SetStateStep(c, "ACTIVE", calls[c].built.manifest, "idle", t)
    /\ UNCHANGED <<maxActiveDeploys, computedRecords, ops>>
    /\ UNCHANGED <<graphVars, shaperVars, restVars>>

\* catch (err): the status is marked FAILED without setState.
Catch(c) ==
    /\ running = c /\ calls[c].pc = "catch"
    /\ LET key == refKey(calls[c].ref)
       IN  deploys' = IF MapHas(deploys, key)
                      THEN MapSet(deploys, key,
                                  [MapGet(deploys, key) EXCEPT
                                      !.state = "FAILED", !.error = calls[c].built.error])
                      ELSE deploys
    /\ currentEndpoints' = onDeployStateChange(currentEndpoints, "FAILED", NoManifest)
    /\ calls' = [calls EXCEPT ![c] = IdleCall]
    /\ running' = 0
    /\ UNCHANGED <<maxActiveDeploys, now, computedRecords, ops>>
    /\ UNCHANGED <<graphVars, shaperVars, restVars>>

\* retireDeploy is called: setState(deployRef, "DRAINING").
RetireDeploy(c, ref) ==
    /\ running = 0
    /\ FreeSlot(c)
    /\ ops < MaxOps
    /\ deploys' = setState(deploys, ref, "DRAINING", NoManifest, now)
    /\ currentEndpoints' = onDeployStateChange(currentEndpoints, "DRAINING", NoManifest)
    /\ calls' = [calls EXCEPT ![c] =
                    [op |-> "retireDeploy", ref |-> ref, record |-> NoRecord,
                     pc |-> "retired", built |-> NoBuild]]
    /\ running' = c
    /\ ops' = ops + 1
    /\ UNCHANGED <<maxActiveDeploys, now, computedRecords>>
    /\ UNCHANGED <<graphVars, shaperVars, restVars>>

Retired(c) ==
    /\ running = c /\ calls[c].pc = "retired"
    /\ SetStateStep(c, "RETIRED", NoManifest, "idle", now)
    /\ UNCHANGED <<maxActiveDeploys, now, computedRecords, ops>>
    /\ UNCHANGED <<graphVars, shaperVars, restVars>>

InitOrchIdle ==
    /\ maxActiveDeploys = 2
    /\ deploys = <<>>
    /\ calls = [c \in Calls |-> IdleCall]
    /\ running = 0
    /\ now = 0
    /\ computedRecords = {}
    /\ currentEndpoints = <<>>
    /\ ops = 0

InitOrch ==
    /\ maxActiveDeploys \in 1..MaxK
    /\ deploys = <<>>
    /\ calls = [c \in Calls |-> IdleCall]
    /\ running = 0
    /\ now = 0
    /\ computedRecords = {}
    /\ currentEndpoints = <<>>
    /\ ops = 0

\* The steps of the calls in flight: what the event loop runs by itself.
OrchRuns ==
    \E c \in Calls :
        \/ Fetching(c) \/ Resolving(c) \/ Building(c) \/ Build(c) \/ Resume(c)
        \/ Activating(c) \/ Drain(c) \/ Active(c) \/ Catch(c) \/ Retired(c)

NextOrch ==
    \/ \E cid \in Cids : HandleComputed(cid)
    \/ \E c \in Calls, ref \in NextRefs, record \in DeployRecords : ProcessDeploy(c, ref, record)
    \/ \E c \in Calls : Fetching(c)
    \/ \E c \in Calls : Resolving(c)
    \/ \E c \in Calls : Building(c)
    \/ \E c \in Calls : Build(c)
    \/ \E c \in Calls : Resume(c)
    \/ \E c \in Calls : Activating(c)
    \/ \E c \in Calls : Drain(c)
    \/ \E c \in Calls : Active(c)
    \/ \E c \in Calls : Catch(c)
    \/ \E c \in Calls, ref \in NextRefs : RetireDeploy(c, ref)
    \/ \E c \in Calls : Retired(c)

\* --------------------------------------------------------- traffic shaper

TOTAL_BASIS_POINTS == 10000

\* The rules a posted array is made of: weights in range (0 and 10000
\* included), a negative weight and a weight above the total.
TrafficRules ==
    { [deploy |-> D1, weight |-> 3000], [deploy |-> D1, weight |-> 10000],
      [deploy |-> D1, weight |-> 15000], [deploy |-> D2, weight |-> 7000],
      [deploy |-> D2, weight |-> 0], [deploy |-> D2, weight |-> -5000] }

\* rules.reduce((sum, r) => sum + r.weight, 0)
RECURSIVE SumWeights(_)
SumWeights(rs) == IF rs = <<>> THEN 0 ELSE rs[1].weight + SumWeights(Tail(rs))

\* Array.prototype.sort with (a, b) => b.weight - a.weight: stable, by
\* weight descending.
InsertByWeight(sorted, r) ==
    LET before == SelectSeq(sorted, LAMBDA x : x.weight >= r.weight)
        after == SelectSeq(sorted, LAMBDA x : x.weight < r.weight)
    IN  before \o <<r>> \o after

RECURSIVE SortByWeightDesc(_)
SortByWeightDesc(rs) ==
    IF rs = <<>> THEN <<>>
    ELSE InsertByWeight(SortByWeightDesc(SubSeq(rs, 1, Len(rs) - 1)), rs[Len(rs)])

NoMessage == <<"">>
SumMessage(total) == <<"Traffic rules must sum to 10000 basis points, got", total>>
RangeMessage(weight) == <<"Traffic rule weight must be between 0 and 10000, got", weight>>

\* The first rule whose weight is out of range, 0 when there is none.
FirstOutOfRange(rs) ==
    LET bad == { i \in 1..Len(rs) : rs[i].weight < 0 \/ rs[i].weight > TOTAL_BASIS_POINTS }
    IN  IF bad = {} THEN 0 ELSE CHOOSE i \in bad : \A j \in bad : i <= j

\* updateRules with the range test alone.
updateRulesNoSumCheck(current, rs) ==
    IF Len(rs) = 0 THEN [threw |-> FALSE, message |-> NoMessage, rules |-> <<>>]
    ELSE IF FirstOutOfRange(rs) # 0
    THEN [threw |-> TRUE, message |-> RangeMessage(rs[FirstOutOfRange(rs)].weight),
          rules |-> current]
    ELSE [threw |-> FALSE, message |-> NoMessage, rules |-> SortByWeightDesc(rs)]

\* updateRules that clears the stored rules before it validates.
updateRulesClearFirst(current, rs) ==
    IF Len(rs) = 0 THEN [threw |-> FALSE, message |-> NoMessage, rules |-> <<>>]
    ELSE IF SumWeights(rs) # TOTAL_BASIS_POINTS
    THEN [threw |-> TRUE, message |-> SumMessage(SumWeights(rs)), rules |-> <<>>]
    ELSE IF FirstOutOfRange(rs) # 0
    THEN [threw |-> TRUE, message |-> RangeMessage(rs[FirstOutOfRange(rs)].weight),
          rules |-> <<>>]
    ELSE [threw |-> FALSE, message |-> NoMessage, rules |-> SortByWeightDesc(rs)]

\* TrafficShaper.updateRules: whether it threw, the Error message, and
\* this.rules afterwards.
updateRules(current, rs) ==
    IF Len(rs) = 0 THEN [threw |-> FALSE, message |-> NoMessage, rules |-> <<>>]
    ELSE IF SumWeights(rs) # TOTAL_BASIS_POINTS
    THEN [threw |-> TRUE, message |-> SumMessage(SumWeights(rs)), rules |-> current]
    ELSE IF FirstOutOfRange(rs) # 0
    THEN [threw |-> TRUE, message |-> RangeMessage(rs[FirstOutOfRange(rs)].weight),
          rules |-> current]
    ELSE [threw |-> FALSE, message |-> NoMessage, rules |-> SortByWeightDesc(rs)]

\* Sticky keys, as their UTF-16 code units: "a", "b", "did:plc:alice".
StickyKeys ==
    { <<97>>, <<98>>, <<100, 105, 100, 58, 112, 108, 99, 58, 97, 108, 105, 99, 101>> }

\* hash = ((hash << 5) + hash + code) | 0 on the 32-bit value kept as two
\* 16-bit halves.
HashStep(h, code) ==
    LET lo == h.lo * 33 + code
        hi == h.hi * 33 + (lo \div 65536)
    IN  [hi |-> hi % 65536, lo |-> lo % 65536]

RECURSIVE Djb2(_, _)
Djb2(h, key) == IF key = <<>> THEN h ELSE Djb2(HashStep(h, Head(key)), Tail(key))

\* hashToRange without the >>> 0: the remainder of the signed 32-bit hash, as
\* JavaScript's % gives it (with the sign of the hash).
hashToRangeSigned(key) ==
    LET h == Djb2([hi |-> 0, lo |-> 5381], key)
    IN  IF h.hi < 32768
        THEN ((h.hi % TOTAL_BASIS_POINTS) * (65536 % TOTAL_BASIS_POINTS) + h.lo)
                 % TOTAL_BASIS_POINTS
        ELSE 0 - ((((65535 - h.hi) % TOTAL_BASIS_POINTS) * (65536 % TOTAL_BASIS_POINTS)
                      + (65536 - h.lo)) % TOTAL_BASIS_POINTS)

\* hashToRange: (hash >>> 0) % 10000, from hash = 5381.
hashToRange(key) ==
    LET h == Djb2([hi |-> 0, lo |-> 5381], key)
    IN  ((h.hi % TOTAL_BASIS_POINTS) * (65536 % TOTAL_BASIS_POINTS) + h.lo) % TOTAL_BASIS_POINTS

\* The for loop of selectDeploy: the first rule whose cumulative weight
\* exceeds value, else the last rule.
RECURSIVE PickByValue(_, _, _)
PickByValue(rs, value, cumulative) ==
    IF Len(rs) = 1 THEN rs[1].deploy
    ELSE IF value < cumulative + rs[1].weight THEN rs[1].deploy
    ELSE PickByValue(Tail(rs), value, cumulative + rs[1].weight)

\* TrafficShaper.selectDeploy once value is drawn; NoRef is null.
selectDeploy(rs, value) ==
    IF Len(rs) = 0 THEN NoRef
    ELSE IF Len(rs) = 1 THEN rs[1].deploy
    ELSE PickByValue(rs, value, 0)

\* Math.floor(Math.random() * 10000) at the places where the pick changes.
RandomValues == {0, 2999, 3000, 4999, 5000, 6999, 7000, 9999}

NoRequest == [hasRules |-> FALSE, rules |-> <<>>, posted |-> FALSE]

NoResponse == [status |-> 0, ok |-> FALSE, count |-> 0, error |-> "", message |-> NoMessage]

\* The bodies POSTed to /admin/traffic: a rules array, or no rules array.
TrafficBodies ==
    { [hasRules |-> TRUE, rules |-> rs, posted |-> TRUE] : rs \in SeqsUpTo(TrafficRules, MaxRules) }
    \cup { [hasRules |-> FALSE, rules |-> <<>>, posted |-> TRUE] }

\* POST /admin/traffic with the given body: admin.post('/traffic', ...) with
\* deps.onTrafficUpdate = updateRules.
PostTraffic(body) ==
    /\ request' = body
    /\ IF ~body.hasRules
       THEN /\ response' = [status |-> 400, ok |-> FALSE, count |-> 0,
                            error |-> "InvalidRequest", message |-> <<"Missing rules array">>]
            /\ rules' = rules
       ELSE LET r == updateRules(rules, body.rules)
            IN  /\ rules' = r.rules
                /\ response' =
                      IF r.threw
                      THEN [status |-> 400, ok |-> FALSE, count |-> 0,
                            error |-> "InvalidRequest", message |-> r.message]
                      ELSE [status |-> 200, ok |-> TRUE, count |-> Len(body.rules),
                            error |-> "", message |-> NoMessage]
    /\ UNCHANGED selected
    /\ UNCHANGED <<graphVars, orchVars, restVars>>

\* selectDeploy(stickyKey) for an authenticated caller.
SelectSticky(key) ==
    /\ selected' = selectDeploy(rules, hashToRange(key))
    /\ UNCHANGED <<rules, request, response>>
    /\ UNCHANGED <<graphVars, orchVars, restVars>>

\* selectDeploy() for an anonymous caller.
SelectRandom(value) ==
    /\ selected' = selectDeploy(rules, value)
    /\ UNCHANGED <<rules, request, response>>
    /\ UNCHANGED <<graphVars, orchVars, restVars>>

InitShaperIdle ==
    /\ rules = <<>>
    /\ request = NoRequest
    /\ response = NoResponse
    /\ selected = NoRef

InitShaper == InitShaperIdle /\ InitOrchIdle /\ InitGraphIdle /\ InitRestIdle

NextShaper ==
    \/ \E body \in TrafficBodies : PostTraffic(body)
    \/ \E key \in StickyKeys : SelectSticky(key)
    \/ \E value \in RandomValues : SelectRandom(value)

\* The keys selectDeploy is called with: StickyKeys and "did:web:x", whose
\* hash has bit 31 set.
SelectKeys == StickyKeys \cup { <<100, 105, 100, 58, 119, 101, 98, 58, 120>> }

\* How selectDeploy returns: "null" with no rules, "single" with one, "loop"
\* from inside the for loop, "fallback" from the statement after it.
RECURSIVE LoopReturns(_, _, _)
LoopReturns(rs, value, cumulative) ==
    IF rs = <<>> THEN FALSE
    ELSE IF value < cumulative + rs[1].weight THEN TRUE
    ELSE LoopReturns(Tail(rs), value, cumulative + rs[1].weight)

ReturnOf(rs, value) ==
    IF Len(rs) = 0 THEN "null"
    ELSE IF Len(rs) = 1 THEN "single"
    ELSE IF LoopReturns(rs, value, 0) THEN "loop" ELSE "fallback"

\* selectDeploy(stickyKey?): NoKey is the call without a key, value what
\* Math.random gives then.
SelectDeploy(stickyKey, random) ==
    LET value == IF stickyKey # NoKey THEN hashToRange(stickyKey) ELSE random
    IN  /\ selected' = selectDeploy(rules, value)
        /\ draw' = [drawn |-> Len(rules) > 1, rules |-> rules,
                    value |-> IF Len(rules) > 1 THEN value ELSE 0,
                    returned |-> ReturnOf(rules, value)]
        /\ UNCHANGED <<rules, request, response>>
        /\ UNCHANGED <<graphVars, orchVars, gatewayVars, controllerVars, watcherVars>>
        /\ UNCHANGED <<cacheVars, queryVars, subscriptionVars, retryVars, poolVars, resolveVars, roundVars, frameVars>>

InitSelect == InitShaperIdle /\ InitOrchIdle /\ InitGraphIdle /\ InitRestIdle

\* The posted rule sets that updateRules accepts.
SelectBodies == { b \in TrafficBodies : b.hasRules /\ ~updateRules(<<>>, b.rules).threw }

\* Accepted rule sets posted and selections made under them.
NextSelect ==
    \/ \E body \in SelectBodies : PostTraffic(body)
    \/ \E key \in SelectKeys : SelectDeploy(key, 0)
    \/ \E value \in RandomValues : SelectDeploy(NoKey, value)

\* ---------------------------------------------------------------- gateway

\* The endpoints a POST /admin/endpoints body is made of.  Two endpoints may
\* carry the same name with different kinds; "other" is a kind the gateway
\* does not know (the body is unvalidated JSON).
GatewayEndpoints ==
    { [name |-> "ep1", kind |-> "computed", ref |-> R1],
      [name |-> "ep1", kind |-> "function", ref |-> R2],
      [name |-> "ep2", kind |-> "searchIndex", ref |-> R2],
      [name |-> "ep2", kind |-> "subscription", ref |-> R3],
      [name |-> "ep2", kind |-> "other", ref |-> R3] }

\* The bodies POSTed to /admin/endpoints: an endpoints array, or none.
EndpointBodies ==
    { [hasEndpoints |-> TRUE, endpoints |-> es] : es \in SeqsUpTo(GatewayEndpoints, MaxEndpoints) }
    \cup { [hasEndpoints |-> FALSE, endpoints |-> <<>>] }

\* DynamicRouter.registerEndpoints: the Map it leaves.
RECURSIVE registerEndpoints(_, _)
registerEndpoints(registered, endpoints) ==
    IF endpoints = <<>> THEN registered
    ELSE registerEndpoints(MapSet(registered, Head(endpoints).name, Head(endpoints)),
                           Tail(endpoints))

\* POST /admin/endpoints with the given body: admin.post('/endpoints', ...)
\* with deps.onEndpointsUpdate = router.registerEndpoints.
PostEndpoints(body) ==
    /\ gwRequest' = [NoGwRequest EXCEPT !.op = "endpoints",
                                        !.hasEndpoints = body.hasEndpoints,
                                        !.endpoints = body.endpoints]
    /\ IF ~body.hasEndpoints
       THEN /\ gwResponse' = [NoGwResponse EXCEPT !.status = 400, !.error = "InvalidRequest"]
            /\ registeredEndpoints' = registeredEndpoints
       ELSE /\ registeredEndpoints' = registerEndpoints(registeredEndpoints, body.endpoints)
            /\ gwResponse' = [NoGwResponse EXCEPT !.status = 200, !.count = Len(body.endpoints)]
    /\ UNCHANGED routed
    /\ UNCHANGED <<graphVars, orchVars, shaperVars, controllerVars, watcherVars, engineVars>>

\* What the controller does with a proxied request: answers it, answers it
\* with an error status, or cannot be reached (fetch rejects).
Upstreams == {"ok", "notFound", "unreachable"}

\* DynamicRouter.proxyQuery / proxySearch / proxyFunction / proxySubscription
\* to the given internal path, as the response the gateway gives.
Proxy(path, deployRef, upstream) ==
    IF upstream = "ok"
    THEN [NoGwResponse EXCEPT !.status = 200, !.proxied = path, !.deployRef = deployRef]
    ELSE IF upstream = "notFound"
    THEN [NoGwResponse EXCEPT !.status = 404, !.error = "UpstreamFailure",
                              !.proxied = path, !.deployRef = deployRef]
    ELSE [NoGwResponse EXCEPT !.status = 502, !.error = "InternalServerError",
                              !.proxied = path, !.deployRef = deployRef]

\* The value selectDeploy works with: the hash of the sticky key, or a random
\* draw when there is none.
SelectionValuesAlwaysRandom(stickyKey) == RandomValues

SelectionValues(stickyKey) ==
    IF stickyKey # NoKey THEN {hashToRange(stickyKey)} ELSE RandomValues

InvalidRequest(status, deployRef) ==
    [NoGwResponse EXCEPT !.status = status, !.error = "InvalidRequest", !.deployRef = deployRef]

\* The method every kind would accept if function endpoints were read like
\* the others.
AcceptedMethodAllGet(kind) == "GET"

\* if (httpMethod !== 'GET') / if (httpMethod !== 'POST'): the one method an
\* endpoint of the kind accepts.
AcceptedMethod(kind) == IF kind = "function" THEN "POST" ELSE "GET"

\* switch (endpoint.kind) of handleXrpcRequest, once a deploy is selected.
RouteByKind(endpoint, req, deployRef, upstream) ==
    IF endpoint.kind \notin {"computed", "searchIndex", "function", "subscription"}
    THEN [NoGwResponse EXCEPT !.status = 500, !.error = "InternalServerError",
                              !.deployRef = deployRef]
    ELSE IF req.httpMethod # AcceptedMethod(endpoint.kind)
    THEN InvalidRequest(405, deployRef)
    ELSE IF endpoint.kind = "computed" THEN Proxy("/internal/query", deployRef, upstream)
    ELSE IF endpoint.kind = "searchIndex" THEN Proxy("/internal/search", deployRef, upstream)
    ELSE IF endpoint.kind = "function" THEN Proxy("/internal/function", deployRef, upstream)
    ELSE IF req.stream = "websocket" THEN InvalidRequest(501, deployRef)
    ELSE IF req.stream # "sse" THEN InvalidRequest(400, deployRef)
    ELSE Proxy("/internal/subscribe", deployRef, upstream)

MethodNotFound == [NoGwResponse EXCEPT !.status = 404, !.error = "MethodNotFound"]
ServiceUnavailable == [NoGwResponse EXCEPT !.status = 503, !.error = "ServiceUnavailable"]

\* handleXrpcRequest with the kind switch ahead of the deploy selection's test.
handleXrpcRequestKindFirst(endpoints, rs, req, value, upstream) ==
    IF ~MapHas(endpoints, req.name) THEN MethodNotFound
    ELSE LET routedTo == RouteByKind(MapGet(endpoints, req.name), req,
                                     selectDeploy(rs, value), upstream)
         IN  IF routedTo.status = 405 \/ selectDeploy(rs, value) # NoRef
             THEN routedTo ELSE ServiceUnavailable

\* handleXrpcRequest with the deploy selection ahead of the endpoint lookup.
handleXrpcRequestRulesFirst(endpoints, rs, req, value, upstream) ==
    IF selectDeploy(rs, value) = NoRef THEN ServiceUnavailable
    ELSE IF ~MapHas(endpoints, req.name) THEN MethodNotFound
    ELSE RouteByKind(MapGet(endpoints, req.name), req, selectDeploy(rs, value), upstream)

\* Gateway.handleXrpcRequest: the response, with the deploy selected and the
\* internal path proxied to (if any).
handleXrpcRequest(endpoints, rs, req, value, upstream) ==
    IF ~MapHas(endpoints, req.name) THEN MethodNotFound
    ELSE IF selectDeploy(rs, value) = NoRef THEN ServiceUnavailable
    ELSE RouteByKind(MapGet(endpoints, req.name), req, selectDeploy(rs, value), upstream)

\* The names requested: "ep4" is never registered.
XrpcNames == {"ep1", "ep2", "ep4"}

\* GET or POST /xrpc/{name}; did is what extractAuth found (NoKey when the
\* request is anonymous), stream what its Accept and Upgrade headers ask for.
\* The callers: anonymous, "a" and "did:plc:alice".
XrpcCallers == {NoKey} \cup { k \in StickyKeys : Len(k) # 1 \/ k[1] = 97 }

XrpcRequests ==
    { r \in { [NoGwRequest EXCEPT !.op = "xrpc", !.name = n, !.httpMethod = m,
                                  !.did = d, !.stream = st] :
                n \in XrpcNames, m \in {"GET", "POST"}, d \in XrpcCallers,
                st \in {"sse", "websocket", "none"} } :
        r.name # "ep2" => r.stream = "none" }

\* The deploys chosen per sticky key while the rule set stays the same, and
\* the keys chosen for more than once.
Routed(req, resp) ==
    IF req.did = NoKey \/ resp.deployRef = NoRef THEN routed
    ELSE LET sameRules == routed.rules = rules
             byKey == IF sameRules THEN routed.byKey ELSE {}
             again == IF sameRules THEN routed.again ELSE {}
         IN  [rules |-> rules,
              byKey |-> byKey \cup {<<req.did, resp.deployRef>>},
              again |-> IF \E p \in byKey : p[1] = req.did
                        THEN again \cup {req.did} ELSE again]

\* app.get / app.post('/xrpc/:method'): one request handled.
Xrpc(req) ==
    /\ \E value \in (IF Len(rules) > 1 THEN SelectionValues(req.did) ELSE {0}) :
          LET answered == handleXrpcRequest(registeredEndpoints, rules, req, value, "ok")
          IN  \E upstream \in (IF answered.proxied # "" THEN Upstreams ELSE {"ok"}) :
                LET resp == handleXrpcRequest(registeredEndpoints, rules, req, value, upstream)
                IN  /\ gwResponse' = resp
                    /\ routed' = Routed(req, resp)
    /\ gwRequest' = req
    /\ UNCHANGED registeredEndpoints
    /\ UNCHANGED <<graphVars, orchVars, shaperVars, controllerVars, watcherVars, engineVars>>

\* The rule sets posted in these runs: none, one deploy, a 70/30 split, and
\* a set that does not sum to 10000.
GatewayTrafficBodies ==
    { b \in TrafficBodies :
        /\ b.hasRules
        /\ b.rules \in { <<>>, << [deploy |-> D1, weight |-> 10000] >>,
                         << [deploy |-> D1, weight |-> 3000], [deploy |-> D2, weight |-> 7000] >>,
                         << [deploy |-> D1, weight |-> 3000] >> } }

\* The accepted ones among them.
AcceptedTrafficBodies ==
    { b \in GatewayTrafficBodies : ~updateRules(<<>>, b.rules).threw }

\* Registrations of one endpoint at a time.
SingleEndpointBodies == { b \in EndpointBodies : b.hasEndpoints /\ Len(b.endpoints) = 1 }

InitGateway ==
    /\ InitGatewayIdle /\ InitShaperIdle /\ InitOrchIdle /\ InitGraphIdle
    /\ InitControllerIdle /\ InitWatcherIdle
    /\ InitEngineIdle

\* Requests to a gateway whose endpoints and rules change under them.
NextGateway ==
    \/ \E body \in SingleEndpointBodies : PostEndpoints(body)
    \/ \E body \in AcceptedTrafficBodies : PostTraffic(body)
    \/ \E req \in XrpcRequests : Xrpc(req)

InitAdmin ==
    /\ InitGatewayIdle /\ InitShaperIdle /\ InitOrchIdle /\ InitGraphIdle
    /\ InitControllerIdle /\ InitWatcherIdle
    /\ InitEngineIdle

\* The two admin mutations, with every body.
NextAdmin ==
    \/ \E body \in EndpointBodies : PostEndpoints(body)
    \/ \E body \in GatewayTrafficBodies : PostTraffic(body)

\* ------------------------------------------------------------- controller

\* options.watchDid: the repository every Watcher event comes from.
WatchDid == "did:a"

\* options.gatewayUrl: configured or left out.
GatewayUrls == {"", "http://gateway"}

\* trafficRules of the appView records an event may carry.
AppViewRules ==
    { <<>>, << [deploy |-> D1, weight |-> 10000] >>,
      << [deploy |-> D1, weight |-> 3000], [deploy |-> D2, weight |-> 7000] >> }

\* A FirehoseEvent as handleEvent reads it: record and cid are optional.
WatcherEvent(type, collection, cid, hasRecord, deployRecord, trafficRules) ==
    [NoCtlEvent EXCEPT !.kind = "event", !.type = type, !.collection = collection,
                       !.did = WatchDid, !.rkey = "self", !.cid = cid,
                       !.hasRecord = hasRecord, !.deployRecord = deployRecord,
                       !.trafficRules = trafficRules]

ControllerEvents ==
    { WatcherEvent(type, "dev.avaas.computed", "c1", TRUE, NoRecord, <<>>) :
        type \in {"create", "update"} }
    \cup { WatcherEvent(type, "dev.avaas.deploy", "d1", TRUE, RecordOk, <<>>) :
             type \in {"create", "update"} }
    \cup { WatcherEvent("create", "dev.avaas.deploy", "", TRUE, RecordOk, <<>>) }
    \cup { WatcherEvent("delete", "dev.avaas.deploy", "", FALSE, NoRecord, <<>>) }
    \cup { WatcherEvent("create", "dev.avaas.appView", "a1", TRUE, NoRecord, rs) :
             rs \in AppViewRules }
    \cup { WatcherEvent("update", "dev.avaas.appView", "a2", TRUE, NoRecord, rs) :
             rs \in AppViewRules \ {<<>>} }
    \cup { WatcherEvent("create", "dev.avaas.function", "f1", TRUE, NoRecord, <<>>) }

\* The state changes the orchestrator reports: setState hands the manifest on
\* with ACTIVATING and ACTIVE, and nothing with the other states.
ManifestEndpoints ==
    { <<>>, << [name |-> "ep1", kind |-> "computed", ref |-> R1] >>,
      << [name |-> "ep2", kind |-> "searchIndex", ref |-> R2] >> }

StateChange(state, hasManifest, endpoints) ==
    [NoCtlEvent EXCEPT !.kind = "stateChange", !.state = state,
                       !.hasManifest = hasManifest, !.endpoints = endpoints]

StateChanges ==
    { StateChange(state, FALSE, <<>>) : state \in {"PENDING", "ACTIVE"} }
    \cup { StateChange("ACTIVATING", TRUE, es) : es \in ManifestEndpoints \ {<<>>} }
    \cup { StateChange("ACTIVE", TRUE, es) : es \in ManifestEndpoints }

\* registerOnGateway up to its first await: the request it sends, if any.
registerOnGatewayNoEmptyCheck(url, endpoints, call) ==
    IF url = "" THEN <<>>
    ELSE << [call |-> call, path |-> "/admin/endpoints", body |-> endpoints] >>

registerOnGateway(url, endpoints, call) ==
    IF url = "" THEN <<>>
    ELSE IF Len(endpoints) = 0 THEN <<>>
    ELSE << [call |-> call, path |-> "/admin/endpoints", body |-> endpoints] >>

\* registerOnGateway after the endpoints request completed: the traffic
\* request, with the rules the Controller holds by then.
updateTrafficRules(trafficRules, call) ==
    IF Len(trafficRules) > 0
    THEN << [call |-> call, path |-> "/admin/traffic", body |-> trafficRules] >>
    ELSE <<>>

\* A call of registerOnGateway starts: it returns at once or awaits the
\* endpoints request.
RegisterOnGateway(endpoints) ==
    LET call == Len(registrations) + 1
        sent == registerOnGateway(gatewayUrl, endpoints, call)
    IN  /\ registrations' =
              Append(registrations, IF sent = <<>> THEN "returned" ELSE "awaitEndpoints")
        /\ pushes' = pushes \o sent

\* Controller.onDeployStateChange, called by the orchestrator's setState.
DeployStateChange(change) ==
    /\ Len(registrations) < MaxEvents
    /\ ctlEvent' = change
    /\ currentEndpoints' =
          IF change.state = "ACTIVE" /\ change.hasManifest
          THEN change.endpoints ELSE currentEndpoints
    /\ IF change.state = "ACTIVE" /\ change.hasManifest
       THEN RegisterOnGateway(change.endpoints)
       ELSE UNCHANGED <<registrations, pushes>>
    /\ UNCHANGED <<gatewayUrl, currentTrafficRules, processDeployCalls>>
    /\ UNCHANGED <<maxActiveDeploys, deploys, calls, running, now, computedRecords, ops>>
    /\ UNCHANGED <<graphVars, shaperVars, gatewayVars, watcherVars, engineVars>>

\* Controller.handleEvent, with handleAppView up to its await.  processDeploy
\* is called and not awaited: the call itself is ProcessDeploy of Spec.
HandleEvent(event) ==
    /\ Len(registrations) < MaxEvents
    /\ Len(processDeployCalls) < MaxEvents
    /\ ctlEvent' = event
    /\ computedRecords' =
          IF /\ event.collection = "dev.avaas.computed"
             /\ event.type = "create" /\ event.hasRecord /\ event.cid # ""
          THEN computedRecords \cup {event.cid} ELSE computedRecords
    /\ processDeployCalls' =
          IF /\ event.collection = "dev.avaas.deploy"
             /\ event.type = "create" /\ event.hasRecord
          THEN Append(processDeployCalls,
                      [deployRef |-> [did |-> event.did, cid |-> event.cid],
                       record |-> event.deployRecord])
          ELSE processDeployCalls
    /\ IF /\ event.collection = "dev.avaas.appView"
          /\ event.type \in {"create", "update"} /\ event.hasRecord
       THEN /\ currentTrafficRules' = event.trafficRules
            /\ RegisterOnGateway(currentEndpoints)
       ELSE UNCHANGED <<currentTrafficRules, registrations, pushes>>
    /\ UNCHANGED gatewayUrl
    /\ UNCHANGED <<maxActiveDeploys, deploys, calls, running, now, currentEndpoints, ops>>
    /\ UNCHANGED <<graphVars, shaperVars, gatewayVars, watcherVars, engineVars>>

\* fetch outcomes: a response of any status, or a rejection.
FetchOutcomes == {"response", "rejected"}

\* The endpoints request of a registerOnGateway call settles; on a response
\* the call goes on to the traffic rules, on a rejection to its catch.
EndpointsSettled(call, outcome) ==
    /\ call \in 1..Len(registrations)
    /\ registrations[call] = "awaitEndpoints"
    /\ LET sent == IF outcome = "response"
                   THEN updateTrafficRules(currentTrafficRules, call) ELSE <<>>
       IN  /\ pushes' = pushes \o sent
           /\ registrations' =
                 [registrations EXCEPT ![call] =
                     IF outcome = "rejected" THEN "caught"
                     ELSE IF sent = <<>> THEN "returned" ELSE "awaitTraffic"]
    /\ ctlEvent' = [NoCtlEvent EXCEPT !.kind = "settled"]
    /\ UNCHANGED <<gatewayUrl, currentTrafficRules, processDeployCalls>>
    /\ UNCHANGED <<orchVars, graphVars, shaperVars, gatewayVars, watcherVars, engineVars>>

\* The traffic request settles and the call ends.
TrafficSettled(call, outcome) ==
    /\ call \in 1..Len(registrations)
    /\ registrations[call] = "awaitTraffic"
    /\ registrations' =
          [registrations EXCEPT ![call] = IF outcome = "rejected" THEN "caught" ELSE "returned"]
    /\ ctlEvent' = [NoCtlEvent EXCEPT !.kind = "settled"]
    /\ UNCHANGED <<gatewayUrl, currentTrafficRules, pushes, processDeployCalls>>
    /\ UNCHANGED <<orchVars, graphVars, shaperVars, gatewayVars, watcherVars, engineVars>>

InitController ==
    /\ gatewayUrl \in GatewayUrls
    /\ currentTrafficRules = <<>>
    /\ registrations = <<>>
    /\ pushes = <<>>
    /\ processDeployCalls = <<>>
    /\ ctlEvent = NoCtlEvent
    /\ InitOrchIdle /\ InitGraphIdle /\ InitShaperIdle /\ InitGatewayIdle /\ InitWatcherIdle
    /\ InitEngineIdle

NextController ==
    \/ \E change \in StateChanges : DeployStateChange(change)
    \/ \E event \in ControllerEvents : HandleEvent(event)
    \/ \E call \in 1..MaxEvents, outcome \in FetchOutcomes : EndpointsSettled(call, outcome)
    \/ \E call \in 1..MaxEvents, outcome \in FetchOutcomes : TrafficSettled(call, outcome)


\* ---------------------------------------------------------------- watcher

AVAAS_COLLECTIONS ==
    {"dev.avaas.computed", "dev.avaas.function", "dev.avaas.searchIndex",
     "dev.avaas.subscription", "dev.avaas.deploy", "dev.avaas.appView"}

\* The options a Watcher is built with.  hasWebSocket: the runtime has a
\* WebSocket implementation (getWebSocketConstructor returns one);
\* onErrorThrows: the onError callback given throws.
WatcherConfigs ==
    [jetstreamUrl : BOOLEAN, useFirehose : BOOLEAN, extraCollections : {{}, {"app.extra"}},
     hasWebSocket : BOOLEAN, onErrorThrows : BOOLEAN]

\* The collections the Watcher is meant to watch: the fixed six and the extras.
WatchedCollections(opts) == AVAAS_COLLECTIONS \cup opts.extraCollections

\* What a relay, a firehose or a PDS may deliver: commits of the watched
\* repository and of another one, in a fixed collection, in the configured
\* extra collection and in a collection nobody asked for; and, from a relay,
\* messages that are not commits.
Frames ==
    [kind : {"commit", "identity"}, did : {WatchDid, "did:other"},
     collection : {"dev.avaas.deploy", "app.extra", "app.bsky.feed.post"}]

\* Watcher.start to its first await: the transports started on the way.
startFallsThrough(opts) ==
    (IF opts.jetstreamUrl THEN {"jetstream"} ELSE {})
    \cup (IF opts.useFirehose THEN {"firehose"} ELSE {"poller"})

start(opts) ==
    IF opts.jetstreamUrl THEN {"jetstream"}
    ELSE IF opts.useFirehose THEN {"firehose"}
    ELSE {"poller"}

\* reconnectDelay = Math.min(reconnectDelay * 2, 30000)
NextDelay(delay) == IF delay * 2 < 30000 THEN delay * 2 ELSE 30000

\* Poller.start: the first poll and the interval timer.
PollerStarted == [NoPoller EXCEPT !.timer = TRUE]

WatcherStart ==
    /\ starting = "notCalled"
    /\ LET transports == start(watcherOptions)
       IN  /\ jetstream' = IF "jetstream" \in transports
                           THEN [NoClient EXCEPT !.pc = "resolving"] ELSE jetstream
           /\ firehose' = IF "firehose" \in transports
                          THEN [NoClient EXCEPT !.pc = "resolving", !.cursor = cursorStore]
                          ELSE firehose
           /\ poller' = IF "poller" \in transports THEN PollerStarted ELSE poller
           /\ starting' = IF "firehose" \in transports THEN "awaitFirehose" ELSE "returned"
    /\ UNCHANGED <<cursorStore, watcherOptions, emitted, stopped>>
    /\ UNCHANGED <<graphVars, orchVars, shaperVars, gatewayVars, controllerVars, engineVars>>

\* JetstreamClient.start after getWebSocketConstructor: running = true and
\* connect(), or the rejection nobody awaits.
JetstreamResolved ==
    /\ jetstream.pc = "resolving"
    /\ jetstream' =
          IF watcherOptions.hasWebSocket
          THEN [jetstream EXCEPT !.pc = "connecting", !.running = TRUE, !.ws = "live"]
          ELSE [jetstream EXCEPT !.pc = "unavailable"]
    /\ UNCHANGED <<cursorStore, watcherOptions, starting, firehose, poller, emitted, stopped>>
    /\ UNCHANGED <<graphVars, orchVars, shaperVars, gatewayVars, controllerVars, engineVars>>

JetstreamOpen ==
    /\ jetstream.pc = "connecting" /\ jetstream.ws = "live"
    /\ jetstream' = [jetstream EXCEPT !.pc = "open", !.reconnectDelay = 1000]
    /\ UNCHANGED <<cursorStore, watcherOptions, starting, firehose, poller, emitted, stopped>>
    /\ UNCHANGED <<graphVars, orchVars, shaperVars, gatewayVars, controllerVars, engineVars>>

\* The socket's error event: onError is called and nothing else changes.
JetstreamError ==
    /\ jetstream.pc \in {"connecting", "open"} /\ ~jetstream.errored
    /\ jetstream' = [jetstream EXCEPT !.errored = TRUE]
    /\ UNCHANGED <<cursorStore, watcherOptions, starting, firehose, poller, emitted, stopped>>
    /\ UNCHANGED <<graphVars, orchVars, shaperVars, gatewayVars, controllerVars, engineVars>>

\* The socket's close event: a reconnect is scheduled while running.
JetstreamClose ==
    /\ jetstream.pc \in {"connecting", "open"}
    /\ jetstream' =
          IF jetstream.running
          THEN [jetstream EXCEPT !.pc = "waiting", !.errored = FALSE,
                                 !.reconnectDelay = NextDelay(@)]
          ELSE [jetstream EXCEPT !.pc = "closed", !.errored = FALSE]
    /\ UNCHANGED <<cursorStore, watcherOptions, starting, firehose, poller, emitted, stopped>>
    /\ UNCHANGED <<graphVars, orchVars, shaperVars, gatewayVars, controllerVars, engineVars>>

\* The reconnect timer fires: connect().
JetstreamReconnect ==
    /\ jetstream.pc = "waiting"
    /\ jetstream' =
          IF jetstream.running
          THEN [jetstream EXCEPT !.pc = "connecting", !.ws = "live"]
          ELSE [jetstream EXCEPT !.pc = "closed"]
    /\ UNCHANGED <<cursorStore, watcherOptions, starting, firehose, poller, emitted, stopped>>
    /\ UNCHANGED <<graphVars, orchVars, shaperVars, gatewayVars, controllerVars, engineVars>>

\* JetstreamClient.handleMessage and the onEvent closure of startJetstream:
\* the events a relay message leads to.
JetstreamEvents(frame) ==
    IF frame.kind # "commit" THEN {}
    ELSE IF frame.did = WatchDid
    THEN {[did |-> frame.did, collection |-> frame.collection]}
    ELSE {}

JetstreamMessage(frame) ==
    /\ jetstream.pc = "open"
    /\ emitted' = emitted \cup JetstreamEvents(frame)
    /\ emitted' # emitted
    /\ UNCHANGED <<cursorStore, watcherOptions, starting, jetstream, firehose, poller, stopped>>
    /\ UNCHANGED <<graphVars, orchVars, shaperVars, gatewayVars, controllerVars, engineVars>>

\* FirehoseClient.doConnect: a new socket on the subscribeRepos URL, with
\* options.cursor as its cursor parameter when that is defined.
doConnect(client) ==
    [client EXCEPT !.pc = "connecting", !.ws = "live", !.subscribed = client.cursor]

\* FirehoseClient.start after getWebSocketConstructor: running = true and the
\* first doConnect of connect(); without a WebSocket implementation start
\* rejects and Watcher.start goes on to the poller.
FirehoseResolved ==
    /\ firehose.pc = "resolving"
    /\ IF watcherOptions.hasWebSocket
       THEN /\ firehose' = doConnect([firehose EXCEPT !.running = TRUE])
            /\ UNCHANGED <<poller, starting>>
       ELSE /\ firehose' = [firehose EXCEPT !.pc = "unavailable"]
            /\ poller' = PollerStarted
            /\ starting' = "returned"
    /\ UNCHANGED <<cursorStore, watcherOptions, jetstream, emitted, stopped>>
    /\ UNCHANGED <<graphVars, orchVars, shaperVars, gatewayVars, controllerVars, engineVars>>

FirehoseOpen ==
    /\ firehose.pc = "connecting" /\ firehose.ws = "live"
    /\ firehose' = [firehose EXCEPT !.pc = "open", !.reconnectDelay = 1000]
    /\ UNCHANGED <<cursorStore, watcherOptions, starting, jetstream, poller, emitted, stopped>>
    /\ UNCHANGED <<graphVars, orchVars, shaperVars, gatewayVars, controllerVars, engineVars>>

\* The catch of connect() after doConnect rejected: where the loop goes.  A
\* throwing onError leaves connect(), and so start(), rejected.
connectCaught(opts, isRunning) ==
    IF opts.onErrorThrows THEN "threw"
    ELSE IF ~isRunning THEN "ended"
    ELSE "waiting"

\* The socket's error event: doConnect rejects and connect() catches.
FirehoseError ==
    /\ firehose.pc \in {"connecting", "open"}
    /\ LET pc == connectCaught(watcherOptions, firehose.running)
       IN  /\ firehose' = [firehose EXCEPT !.pc = pc, !.ws = "errored", !.errored = TRUE]
           /\ poller' = IF pc = "threw" THEN PollerStarted ELSE poller
           /\ starting' = IF pc = "waiting" THEN starting ELSE "returned"
    /\ UNCHANGED <<cursorStore, watcherOptions, jetstream, emitted, stopped>>
    /\ UNCHANGED <<graphVars, orchVars, shaperVars, gatewayVars, controllerVars, engineVars>>

\* The socket's close event: doConnect resolves and the loop connects again
\* at once while running; otherwise connect() and start() return.
FirehoseClose ==
    /\ firehose.pc \in {"connecting", "open"}
    /\ IF firehose.running
       THEN /\ firehose' = doConnect(firehose)
            /\ UNCHANGED starting
       ELSE /\ firehose' = [firehose EXCEPT !.pc = "ended"]
            /\ starting' = "returned"
    /\ firehose' # firehose
    /\ UNCHANGED <<cursorStore, watcherOptions, jetstream, poller, emitted, stopped>>
    /\ UNCHANGED <<graphVars, orchVars, shaperVars, gatewayVars, controllerVars, engineVars>>

\* The wait after a connection error is over: the delay doubles and the loop
\* tests running again.
FirehoseRetry ==
    /\ firehose.pc = "waiting"
    /\ IF firehose.running
       THEN /\ firehose' = doConnect([firehose EXCEPT !.reconnectDelay = NextDelay(@)])
            /\ UNCHANGED starting
       ELSE /\ firehose' = [firehose EXCEPT !.pc = "ended", !.reconnectDelay = NextDelay(@)]
            /\ starting' = "returned"
    /\ UNCHANGED <<cursorStore, watcherOptions, jetstream, poller, emitted, stopped>>
    /\ UNCHANGED <<graphVars, orchVars, shaperVars, gatewayVars, controllerVars, engineVars>>

\* FirehoseClient.processMessage with collections = AVAAS_COLLECTIONS, and the
\* onEvent closure of startFirehose.
FirehoseEvents(frame) ==
    IF frame.collection \notin AVAAS_COLLECTIONS THEN {}
    ELSE IF frame.did = WatchDid
    THEN {[did |-> frame.did, collection |-> frame.collection]}
    ELSE {}

\* The sequence numbers a firehose message may carry, or none.
Seqs == {NoCursor} \cup 1..MaxSeq

\* The loop of processMessage over msg.ops, opCount operations of the frame's
\* repository and collection: the events it decodes, and how many of them it
\* handed to onEvent.  thrownAt is the operation at which the loop throws,
\* because the callback does or because the next operation is malformed, 0
\* when it runs through; the listener's catch drops the rest of the message.
processOps(frame, opCount, thrownAt) ==
    LET decoded == IF FirehoseEvents(frame) = {} THEN 0 ELSE opCount
    IN  [decoded |-> decoded,
         handed |-> IF thrownAt = 0 \/ decoded = 0 THEN decoded ELSE thrownAt]

\* processMessage: the message's seq goes to onCursor first, the loop over
\* the operations comes after it.
processMessage(seq, looped) ==
    [stored |-> seq # NoCursor, decoded |-> looped.decoded, handed |-> looped.handed]

\* The message listener: processMessage stores the message's seq through
\* onCursor and then emits.  After Watcher.stop the store is closed, setCursor
\* throws and the listener's catch drops the message.
FirehoseMessage(frame, seq, opCount, thrownAt) ==
    /\ firehose.pc = "open"
    /\ IF seq # NoCursor /\ stopped
       THEN UNCHANGED <<cursorStore, emitted, frameCall>>
       ELSE LET done == processMessage(seq, processOps(frame, opCount, thrownAt))
            IN  /\ cursorStore' = IF done.stored THEN seq ELSE cursorStore
                /\ emitted' = emitted \cup (IF done.handed > 0 THEN FirehoseEvents(frame) ELSE {})
                /\ frameCall' = done
    /\ <<cursorStore', emitted'>> # <<cursorStore, emitted>>
    /\ UNCHANGED <<watcherOptions, starting, jetstream, firehose, poller, stopped>>
    /\ UNCHANGED <<graphVars, orchVars, shaperVars, gatewayVars, controllerVars>>
    /\ UNCHANGED <<cacheVars, queryVars, subscriptionVars, selectVars, retryVars, poolVars,
                   resolveVars, roundVars>>

\* What listRecords may return for a collection: records with distinct
\* record keys, each with the cid of its content.
ListedRecords == [rkey : {"k1", "k2"}, cid : {"c1", "c2"}]
Listings ==
    { l \in SeqsUpTo(ListedRecords, MaxRecords) :
        \A i, j \in 1..Len(l) : l[i].rkey = l[j].rkey => i = j }
PolledCollections == {"dev.avaas.deploy", "dev.avaas.appView"}
\* The listings of a repository that holds one record at most.
SingleRecordListings == { l \in Listings : \A i \in 1..Len(l) : l[i] = [rkey |-> "k1", cid |-> "c1"] }

\* An event of the poller: options.did, the collection polled, no cid on a
\* delete.
PollerEvent(type, collection, rkey, cid) ==
    [type |-> type, collection |-> collection, rkey |-> rkey, did |-> WatchDid, cid |-> cid]

\* The key `${collection}/${rkey}`; neither part holds a slash.
PollKey(collection, rkey) == <<collection, "/", rkey>>

MapDelete(m, k) ==
    LET Other(entry) == entry.key # k IN SelectSeq(m, Other)

\* The loop over data.records were a new record reported without being kept.
RECURSIVE pollRecordsForgetful(_, _, _, _)
pollRecordsForgetful(known, collection, records, events) ==
    IF records = <<>> THEN [knownCids |-> known, events |-> events]
    ELSE LET record == Head(records)
             key == PollKey(collection, record.rkey)
         IN  IF ~MapHas(known, key)
             THEN pollRecordsForgetful(known, collection, Tail(records),
                              Append(events, PollerEvent("create", collection, record.rkey, record.cid)))
             ELSE IF MapGet(known, key) # record.cid
             THEN pollRecordsForgetful(MapSet(known, key, record.cid), collection, Tail(records),
                              Append(events, PollerEvent("update", collection, record.rkey, record.cid)))
             ELSE pollRecordsForgetful(known, collection, Tail(records), events)

\* pollCollection, the loop over data.records: knownCids and the events so far.
RECURSIVE pollRecords(_, _, _, _)
pollRecords(known, collection, records, events) ==
    IF records = <<>> THEN [knownCids |-> known, events |-> events]
    ELSE LET record == Head(records)
             key == PollKey(collection, record.rkey)
         IN  IF ~MapHas(known, key)
             THEN pollRecords(MapSet(known, key, record.cid), collection, Tail(records),
                              Append(events, PollerEvent("create", collection, record.rkey, record.cid)))
             ELSE IF MapGet(known, key) # record.cid
             THEN pollRecords(MapSet(known, key, record.cid), collection, Tail(records),
                              Append(events, PollerEvent("update", collection, record.rkey, record.cid)))
             ELSE pollRecords(known, collection, Tail(records), events)

\* pollCollection, the loop over knownCids: keys is what is left to visit.
RECURSIVE pollDeletedAnyCollection(_, _, _, _, _)
pollDeletedAnyCollection(known, keys, collection, currentKeys, events) ==
    IF keys = <<>> THEN [knownCids |-> known, events |-> events]
    ELSE LET key == Head(keys)
         IN  IF key \notin currentKeys
             THEN pollDeletedAnyCollection(MapDelete(known, key), Tail(keys), collection, currentKeys,
                              Append(events, PollerEvent("delete", collection, key[3], "")))
             ELSE pollDeletedAnyCollection(known, Tail(keys), collection, currentKeys, events)

RECURSIVE pollDeleted(_, _, _, _, _)
pollDeleted(known, keys, collection, currentKeys, events) ==
    IF keys = <<>> THEN [knownCids |-> known, events |-> events]
    ELSE LET key == Head(keys)
         IN  IF key[1] # collection
             THEN pollDeleted(known, Tail(keys), collection, currentKeys, events)
             ELSE IF key \notin currentKeys
             THEN pollDeleted(MapDelete(known, key), Tail(keys), collection, currentKeys,
                              Append(events, PollerEvent("delete", collection, key[3], "")))
             ELSE pollDeleted(known, Tail(keys), collection, currentKeys, events)

\* Poller.pollCollection after the listing arrived.
pollCollection(known, collection, listing) ==
    LET listed == pollRecords(known, collection, listing, <<>>)
        currentKeys == { PollKey(collection, listing[i].rkey) : i \in 1..Len(listing) }
    IN  pollDeleted(listed.knownCids, MapKeys(listed.knownCids), collection, currentKeys,
                    listed.events)

\* A poll of one collection completes, on the first poll or on the timer.
PollCollection(collection, listing) ==
    /\ poller.timer
    /\ LET done == pollCollection(poller.knownCids, collection, listing)
       IN  /\ poller' = [poller EXCEPT
                            !.knownCids = done.knownCids,
                            !.polled = [collection |-> collection, listing |-> listing,
                                        events |-> done.events]]
           /\ emitted' = emitted \cup
                 { [did |-> done.events[i].did, collection |-> done.events[i].collection] :
                     i \in 1..Len(done.events) }
    /\ UNCHANGED <<cursorStore, watcherOptions, starting, jetstream, firehose, stopped>>
    /\ UNCHANGED <<graphVars, orchVars, shaperVars, gatewayVars, controllerVars, engineVars>>

\* FirehoseClient.stop and JetstreamClient.stop: running = false, and the
\* socket, if there is one, is closed.
stop(client) ==
    [client EXCEPT !.running = FALSE,
                   !.ws = IF @ = "live" THEN "closing" ELSE "none"]

\* Watcher.stop
WatcherStop ==
    /\ starting # "notCalled"
    /\ ~stopped
    /\ stopped' = TRUE
    /\ firehose' = IF firehose.pc # "none" THEN stop(firehose) ELSE firehose
    /\ jetstream' = IF jetstream.pc # "none" THEN stop(jetstream) ELSE jetstream
    /\ poller' = [poller EXCEPT !.timer = FALSE]
    /\ UNCHANGED <<cursorStore, watcherOptions, starting, emitted>>
    /\ UNCHANGED <<graphVars, orchVars, shaperVars, gatewayVars, controllerVars, engineVars>>

InitWatcher ==
    /\ watcherOptions \in WatcherConfigs
    /\ starting = "notCalled"
    /\ jetstream = NoClient
    /\ firehose = NoClient
    /\ poller = NoPoller
    /\ emitted = {}
    /\ stopped = FALSE
    /\ cursorStore \in {NoCursor, 1}
    /\ InitOrchIdle /\ InitGraphIdle /\ InitShaperIdle /\ InitGatewayIdle /\ InitControllerIdle
    /\ InitEngineIdle

\* A Watcher that was told not to use the firehose, after start(): the poller
\* runs.
InitPoller ==
    /\ watcherOptions =
          [jetstreamUrl |-> FALSE, useFirehose |-> FALSE, extraCollections |-> {},
           hasWebSocket |-> TRUE, onErrorThrows |-> FALSE]
    /\ starting = "returned"
    /\ jetstream = NoClient
    /\ firehose = NoClient
    /\ poller = PollerStarted
    /\ emitted = {}
    /\ stopped = FALSE
    /\ cursorStore = NoCursor
    /\ InitOrchIdle /\ InitGraphIdle /\ InitShaperIdle /\ InitGatewayIdle /\ InitControllerIdle
    /\ InitEngineIdle

\* The polls of a repository whose records come, change and go.
NextPoller ==
    \E collection \in PolledCollections, listing \in Listings : PollCollection(collection, listing)

\* The listings of a repository that holds one record key: the record comes,
\* changes and goes.
RoundListings == { l \in Listings : \A i \in 1..Len(l) : l[i].rkey = "k1" }

\* Two of options.collections (AVAAS_COLLECTIONS), in the order poll goes
\* through them.
CollectionOrder == <<"dev.avaas.deploy", "dev.avaas.appView">>

\* The type of the event sent last for each key, after these were sent.
RECURSIVE lastAfter(_, _)
lastAfter(last, events) ==
    IF events = <<>> THEN last
    ELSE lastAfter(MapSet(last, PollKey(Head(events).collection, Head(events).rkey),
                          Head(events).type),
                   Tail(events))

\* poll after the pollCollection of call r returned or threw: the loop goes
\* on to the next collection, or the call is over.
NextCollection(polls, r) ==
    IF polls[r] < Len(CollectionOrder)
    THEN [polls EXCEPT ![r] = @ + 1]
    ELSE SubSeq(polls, 1, r - 1) \o SubSeq(polls, r + 1, Len(polls))

\* start, or the interval timer: poll is called without being awaited, and
\* runs up to the fetch of its first collection, whatever earlier calls do.
PollTick ==
    /\ poller.timer
    /\ rounds.ticks < MaxRounds
    /\ rounds' = [rounds EXCEPT !.polls = Append(@, 1), !.ticks = @ + 1]
    /\ UNCHANGED watcherVars
    /\ UNCHANGED <<graphVars, orchVars, shaperVars, gatewayVars, controllerVars>>
    /\ UNCHANGED <<cacheVars, queryVars, subscriptionVars, selectVars, retryVars, poolVars,
                   resolveVars, frameVars>>

\* The PDS answers the listRecords of call r: the rest of pollCollection runs
\* in one task against knownCids as it is now.
PollResponse(r, listing) ==
    /\ r \in 1..Len(rounds.polls)
    /\ LET collection == CollectionOrder[rounds.polls[r]]
           done == pollCollection(poller.knownCids, collection, listing)
       IN  /\ poller' = [poller EXCEPT
                            !.knownCids = done.knownCids,
                            !.polled = [collection |-> collection, listing |-> listing,
                                        events |-> done.events]]
           /\ emitted' = emitted \cup
                 { [did |-> done.events[i].did, collection |-> done.events[i].collection] :
                     i \in 1..Len(done.events) }
           /\ rounds' = [rounds EXCEPT
                            !.polls = NextCollection(@, r),
                            !.last = lastAfter(@, done.events),
                            !.gone = @ \cup { PollKey(done.events[i].collection, done.events[i].rkey) :
                                                i \in { j \in 1..Len(done.events) :
                                                          done.events[j].type = "delete" } }]
    /\ UNCHANGED <<cursorStore, watcherOptions, starting, jetstream, firehose, stopped>>
    /\ UNCHANGED <<graphVars, orchVars, shaperVars, gatewayVars, controllerVars>>
    /\ UNCHANGED <<cacheVars, queryVars, subscriptionVars, selectVars, retryVars, poolVars,
                   resolveVars, frameVars>>

\* The fetch of call r rejects or the response is not ok: pollCollection
\* throws before it reads knownCids, poll reports the error and goes on.
PollFailure(r) ==
    /\ r \in 1..Len(rounds.polls)
    /\ rounds' = [rounds EXCEPT !.polls = NextCollection(@, r)]
    /\ UNCHANGED watcherVars
    /\ UNCHANGED <<graphVars, orchVars, shaperVars, gatewayVars, controllerVars>>
    /\ UNCHANGED <<cacheVars, queryVars, subscriptionVars, selectVars, retryVars, poolVars,
                   resolveVars, frameVars>>

InitRounds ==
    /\ watcherOptions =
          [jetstreamUrl |-> FALSE, useFirehose |-> FALSE, extraCollections |-> {},
           hasWebSocket |-> TRUE, onErrorThrows |-> FALSE]
    /\ starting = "returned"
    /\ jetstream = NoClient
    /\ firehose = NoClient
    /\ poller = PollerStarted
    /\ emitted = {}
    /\ stopped = FALSE
    /\ cursorStore = NoCursor
    /\ InitOrchIdle /\ InitGraphIdle /\ InitShaperIdle /\ InitGatewayIdle /\ InitControllerIdle
    /\ InitEngineIdle

\* Poll calls started one after the other, their answers coming in any order.
NextRounds ==
    \/ PollTick
    \/ \E r \in 1..MaxRounds, listing \in RoundListings : PollResponse(r, listing)
    \/ \E r \in 1..MaxRounds : PollFailure(r)

\* The steps the event loop takes by itself: promises, timers, socket events.
WatcherRuns ==
    \/ WatcherStart
    \/ JetstreamResolved
    \/ JetstreamOpen
    \/ JetstreamError
    \/ JetstreamClose
    \/ JetstreamReconnect
    \/ FirehoseResolved
    \/ FirehoseOpen
    \/ FirehoseError
    \/ FirehoseClose
    \/ FirehoseRetry

NextWatcher ==
    \/ WatcherRuns
    \/ \E frame \in Frames : JetstreamMessage(frame)
    \/ \E frame \in Frames, seq \in Seqs, opCount \in 1..MaxFrameOps, thrownAt \in 0..MaxFrameOps :
          thrownAt <= opCount /\ FirehoseMessage(frame, seq, opCount, thrownAt)
    \/ \E collection \in PolledCollections, listing \in SingleRecordListings :
          PollCollection(collection, listing)
    \/ WatcherStop


\* ------------------------------------------------------------ query cache

CacheKeys == {"q1", "q2"}
CacheValues == {"r1", "r2"}
CacheVersions == {"v1", "v2"}
\* ttlSeconds of a set call.
Ttls == {0, 1}

CacheEntry(value, expiresAt, version) ==
    [value |-> value, expiresAt |-> expiresAt, version |-> version]

\* QueryCache.get as it would be if a version mismatch left the entry alone.
getKeepsStale(entries, key, version, t) ==
    IF ~MapHas(entries, key)
    THEN [cache |-> entries, result |-> Undefined]
    ELSE LET entry == MapGet(entries, key)
         IN  IF entry.expiresAt < t
             THEN [cache |-> MapDelete(entries, key), result |-> Undefined]
             ELSE IF entry.version # version
                  THEN [cache |-> entries, result |-> Undefined]
                  ELSE [cache |-> entries, result |-> entry.value]

\* QueryCache.get: the cache it leaves and what it returns.
get(entries, key, version, t) ==
    IF ~MapHas(entries, key)
    THEN [cache |-> entries, result |-> Undefined]
    ELSE LET entry == MapGet(entries, key)
         IN  IF entry.expiresAt < t
             THEN [cache |-> MapDelete(entries, key), result |-> Undefined]
             ELSE IF entry.version # version
                  THEN [cache |-> MapDelete(entries, key), result |-> Undefined]
                  ELSE [cache |-> entries, result |-> entry.value]

\* QueryCache.evict: expired entries go; if the cache is still full, the
\* first Math.floor(maxEntries * 0.1) entries in insertion order go.
evict(entries, capacity, t) ==
    LET Live(entry) == ~(entry.value.expiresAt < t)
        live == SelectSeq(entries, Live)
        toEvict == capacity \div 10
        evicted == IF toEvict < Len(live) THEN toEvict ELSE Len(live)
    IN  IF Len(live) >= capacity
        THEN SubSeq(live, evicted + 1, Len(live))
        ELSE live

\* QueryCache.set.
set(entries, capacity, key, value, ttlSeconds, version, t) ==
    LET kept == IF Len(entries) >= capacity THEN evict(entries, capacity, t) ELSE entries
    IN  MapSet(kept, key, CacheEntry(value, t + ttlSeconds, version))

CacheGet(key, version) ==
    LET got == get(cache, key, version, dateNow)
    IN  /\ cache' = got.cache
        /\ cacheResult' =
              [key |-> key, version |-> version, had |-> MapHas(cache, key),
               result |-> got.result]
        /\ UNCHANGED <<maxEntries, dateNow>>
        /\ UNCHANGED <<graphVars, orchVars, shaperVars, gatewayVars, controllerVars, watcherVars>>
        /\ UNCHANGED <<queryVars, subscriptionVars, utilVars>>

CacheSet(key, value, ttlSeconds, version) ==
    /\ cache' = set(cache, maxEntries, key, value, ttlSeconds, version, dateNow)
    /\ cacheResult' = NoCacheResult
    /\ UNCHANGED <<maxEntries, dateNow>>
    /\ UNCHANGED <<graphVars, orchVars, shaperVars, gatewayVars, controllerVars, watcherVars>>
    /\ UNCHANGED <<queryVars, subscriptionVars, utilVars>>

\* Time passes between two calls.
CacheTick ==
    /\ dateNow < MaxClock
    /\ dateNow' = dateNow + 1
    /\ UNCHANGED <<cache, maxEntries, cacheResult>>
    /\ UNCHANGED <<graphVars, orchVars, shaperVars, gatewayVars, controllerVars, watcherVars>>
    /\ UNCHANGED <<queryVars, subscriptionVars, utilVars>>

InitCache ==
    /\ cache = <<>>
    /\ maxEntries \in 1..MaxCacheEntries
    /\ dateNow = 0
    /\ cacheResult = NoCacheResult
    /\ InitOrchIdle /\ InitGraphIdle /\ InitShaperIdle
    /\ InitGatewayIdle /\ InitControllerIdle /\ InitWatcherIdle
    /\ InitQueryIdle /\ InitSubscriptionIdle /\ InitUtilIdle

NextCache ==
    \/ \E key \in CacheKeys, version \in CacheVersions : CacheGet(key, version)
    \/ \E key \in CacheKeys, value \in CacheValues, ttlSeconds \in Ttls,
          version \in CacheVersions : CacheSet(key, value, ttlSeconds, version)
    \/ CacheTick


\* ----------------------------------------------------------- query engine
\*
\* executePlan on the plan of a query of this shape (the pirate query):
\*   select avast._uri, avast.createdAt, ayeCount = count(aye._uri)
\*   from avast <joinType> join aye on aye.avast.uri = avast._uri
\*   group by avast._uri  order by avast.createdAt <direction>
\* whose pipeline is fetch, join, group, select, orderBy.

\* What getNestedValue returns for a key the row does not have.
Missing == "undefined"

AvastUris == [i \in 1..MaxLeft |-> <<"avast", i>>]
\* createdAt of a record, as an instant.
CreatedAts == 1..3

\* The avast records a PDS lists: their uris differ, their order is any.
AvastListings ==
    { l \in SeqsUpTo([uri : Range(AvastUris), createdAt : CreatedAts], MaxLeft) :
        \A i \in 1..Len(l) : l[i].uri = AvastUris[i] }

\* The aye records: each points at an avast, listed or not.
AyeListings ==
    { l \in SeqsUpTo([uri : { <<"aye", i>> : i \in 1..MaxRight },
                      avast : Range(AvastUris) \cup {<<"avast", 0>>}], MaxRight) :
        \A i \in 1..Len(l) : l[i].uri = <<"aye", i>> }

QueryPlans == [joinType : {"left", "inner"}, direction : {"asc", "desc"}]

\* A left row that matched no right row: it has no aye key.
NoAye == [uri |-> Missing, avast |-> Missing]

\* The join predicate: aye.avast.uri = avast._uri.
On(merged) == merged.aye.avast = merged.avast.uri

\* performJoin, the inner loop: the right rows that match left row l, merged.
RECURSIVE matchRight(_, _)
matchRight(l, right) ==
    IF right = <<>>
    THEN <<>>
    ELSE LET merged == [avast |-> l, aye |-> Head(right)]
         IN  (IF On(merged) THEN <<merged>> ELSE <<>>) \o matchRight(l, Tail(right))

\* performJoin for the join types left and inner.
RECURSIVE performJoin(_, _, _)
performJoin(left, right, joinType) ==
    IF left = <<>>
    THEN <<>>
    ELSE LET matches == matchRight(Head(left), right)
             unmatched == IF matches = <<>> /\ joinType = "left"
                          THEN <<[avast |-> Head(left), aye |-> NoAye]>>
                          ELSE <<>>
         IN  matches \o unmatched \o performJoin(Tail(left), right, joinType)

\* performGroupBy on avast._uri: the groups in the order their keys first
\* appear, each with its rows in order.
RECURSIVE performGroupBy(_, _)
performGroupBy(joined, groups) ==
    IF joined = <<>>
    THEN groups
    ELSE LET key == Head(joined).avast.uri
             group == IF MapHas(groups, key) THEN MapGet(groups, key) ELSE <<>>
         IN  performGroupBy(Tail(joined), MapSet(groups, key, Append(group, Head(joined))))

\* count as if it counted every row of the group.
countEveryRow(group) == Len(group)

\* evaluateBuiltin, count(aye._uri) on a grouped row: the rows of the group
\* whose value is neither null nor undefined.
count(group) ==
    LET Present(groupRow) == groupRow.aye.uri # Missing
    IN  Len(SelectSeq(group, Present))

\* The select step on a grouped row: the first row of the group gives the
\* avast fields; the projected row has only the aliases.
selectFields(group) ==
    [avastUri |-> group[1].avast.uri, avastCreatedAt |-> group[1].avast.createdAt,
     ayeCount |-> count(group)]

\* The comparator of performOrderBy for one clause on avast.createdAt, which
\* the projected row holds under the alias avast.createdAt.
Compare(a, b, direction) ==
    LET cmp == a.avastCreatedAt - b.avastCreatedAt
    IN  IF direction = "desc" THEN 0 - cmp ELSE cmp

\* Array.prototype.sort is stable: each row goes behind the rows that do not
\* compare greater than it.
RECURSIVE performOrderBy(_, _, _)
performOrderBy(unsorted, sorted, direction) ==
    IF unsorted = <<>>
    THEN sorted
    ELSE LET row == Head(unsorted)
             before == Cardinality({ i \in 1..Len(sorted) : Compare(sorted[i], row, direction) <= 0 })
         IN  performOrderBy(Tail(unsorted),
                            SubSeq(sorted, 1, before) \o <<row>>
                               \o SubSeq(sorted, before + 1, Len(sorted)),
                            direction)

\* case "fetch": the rows of the primary source.
QueryFetch ==
    /\ pipelineStep = "fetch"
    /\ queryRows' = pdsRecords.avast
    /\ pipelineStep' = "join"
    /\ UNCHANGED <<queryPlan, pdsRecords>>
    /\ UNCHANGED <<graphVars, orchVars, shaperVars, gatewayVars, controllerVars, watcherVars>>
    /\ UNCHANGED <<cacheVars, subscriptionVars, utilVars>>

\* case "join".
QueryJoin ==
    /\ pipelineStep = "join"
    /\ queryRows' = performJoin(queryRows, pdsRecords.aye, queryPlan.joinType)
    /\ pipelineStep' = "group"
    /\ UNCHANGED <<queryPlan, pdsRecords>>
    /\ UNCHANGED <<graphVars, orchVars, shaperVars, gatewayVars, controllerVars, watcherVars>>
    /\ UNCHANGED <<cacheVars, subscriptionVars, utilVars>>

\* case "group": one row per group, with the group attached.
QueryGroup ==
    /\ pipelineStep = "group"
    /\ queryRows' =
          LET groups == performGroupBy(queryRows, <<>>)
          IN  [i \in 1..Len(groups) |-> groups[i].value]
    /\ pipelineStep' = "select"
    /\ UNCHANGED <<queryPlan, pdsRecords>>
    /\ UNCHANGED <<graphVars, orchVars, shaperVars, gatewayVars, controllerVars, watcherVars>>
    /\ UNCHANGED <<cacheVars, subscriptionVars, utilVars>>

\* case "select".
QuerySelect ==
    /\ pipelineStep = "select"
    /\ queryRows' = [i \in 1..Len(queryRows) |-> selectFields(queryRows[i])]
    /\ pipelineStep' = "orderBy"
    /\ UNCHANGED <<queryPlan, pdsRecords>>
    /\ UNCHANGED <<graphVars, orchVars, shaperVars, gatewayVars, controllerVars, watcherVars>>
    /\ UNCHANGED <<cacheVars, subscriptionVars, utilVars>>

\* case "orderBy", the last step: executePlan returns rows.
QueryOrderBy ==
    /\ pipelineStep = "orderBy"
    /\ queryRows' = performOrderBy(queryRows, <<>>, queryPlan.direction)
    /\ pipelineStep' = "returned"
    /\ UNCHANGED <<queryPlan, pdsRecords>>
    /\ UNCHANGED <<graphVars, orchVars, shaperVars, gatewayVars, controllerVars, watcherVars>>
    /\ UNCHANGED <<cacheVars, subscriptionVars, utilVars>>

\* execute is called on a plan, with a PDS holding any records.
InitQuery ==
    /\ queryPlan \in QueryPlans
    /\ pdsRecords \in [avast : AvastListings, aye : AyeListings]
    /\ pipelineStep = "fetch"
    /\ queryRows = <<>>
    /\ InitOrchIdle /\ InitGraphIdle /\ InitShaperIdle
    /\ InitGatewayIdle /\ InitControllerIdle /\ InitWatcherIdle
    /\ InitCacheIdle /\ InitSubscriptionIdle /\ InitUtilIdle

NextQuery ==
    \/ QueryFetch
    \/ QueryJoin
    \/ QueryGroup
    \/ QuerySelect
    \/ QueryOrderBy

\* query.limit and query.offset, each set or left out.
LimitQueries ==
    { q \in [hasLimit : BOOLEAN, limit : 0..MaxLimit, hasOffset : BOOLEAN, offset : 0..MaxLimit] :
        /\ ~q.hasLimit => q.limit = 0
        /\ ~q.hasOffset => q.offset = 0 }

\* QueryPlanner.plan, LIMIT + OFFSET: the steps if (query.limit) pushes.
planLimit(query) ==
    IF query.hasLimit /\ query.limit # 0
    THEN << [type |-> "limit", limit |-> query.limit,
             hasOffset |-> query.hasOffset, offset |-> query.offset] >>
    ELSE <<>>

\* Array.prototype.slice(start, end) for start and end that are not negative.
slice(rows, begin, end) ==
    IF begin >= Len(rows) THEN <<>>
    ELSE SubSeq(rows, begin + 1, IF end < Len(rows) THEN end ELSE Len(rows))

\* step.offset ?? 0
OffsetOrZero(step) == IF step.hasOffset THEN step.offset ELSE 0

\* QueryPlanner.plan on the query.
LimitPlan ==
    /\ pipelineStep = "plan"
    /\ queryPlan' = [queryPlan EXCEPT !.pipeline = planLimit(queryPlan.query)]
    /\ pipelineStep' = "preceding"
    /\ UNCHANGED <<pdsRecords, queryRows>>
    /\ UNCHANGED <<graphVars, orchVars, shaperVars, gatewayVars, controllerVars, watcherVars>>
    /\ UNCHANGED <<cacheVars, subscriptionVars, utilVars>>

\* The steps of executePlan before the limit step leave the given rows.
LimitPreceding(produced) ==
    /\ pipelineStep = "preceding"
    /\ queryRows' = produced
    /\ pipelineStep' = "limit"
    /\ UNCHANGED <<queryPlan, pdsRecords>>
    /\ UNCHANGED <<graphVars, orchVars, shaperVars, gatewayVars, controllerVars, watcherVars>>
    /\ UNCHANGED <<cacheVars, subscriptionVars, utilVars>>

\* The rest of the for loop over plan.pipeline: case "limit" when the plan
\* has that step, and return rows.
QueryLimit ==
    /\ pipelineStep = "limit"
    /\ queryRows' =
          IF queryPlan.pipeline = <<>> THEN queryRows
          ELSE LET step == queryPlan.pipeline[1]
               IN  slice(queryRows, OffsetOrZero(step), OffsetOrZero(step) + step.limit)
    /\ pipelineStep' = "returned"
    /\ UNCHANGED <<queryPlan, pdsRecords>>
    /\ UNCHANGED <<graphVars, orchVars, shaperVars, gatewayVars, controllerVars, watcherVars>>
    /\ UNCHANGED <<cacheVars, subscriptionVars, utilVars>>

\* execute is called on a query with any limit and offset.
InitLimit ==
    /\ queryPlan \in [query : LimitQueries, pipeline : {<<>>}]
    /\ pdsRecords = [avast |-> <<>>, aye |-> <<>>]
    /\ pipelineStep = "plan"
    /\ queryRows = <<>>
    /\ InitOrchIdle /\ InitGraphIdle /\ InitShaperIdle
    /\ InitGatewayIdle /\ InitControllerIdle /\ InitWatcherIdle
    /\ InitCacheIdle /\ InitSubscriptionIdle /\ InitUtilIdle

NextLimit ==
    \/ LimitPlan
    \/ \E produced \in SeqsUpTo(1..MaxRows, MaxRows) : LimitPreceding(produced)
    \/ QueryLimit


\* ------------------------------------------------------------------ retry

Min(a, b) == IF a < b THEN a ELSE b

\* The options the PdsResolver passes (3 attempts, 500ms, 5s), and the same
\* with fewer attempts, the default base delay, or one that reaches the cap.
RetryOptionSets ==
    [maxAttempts : 1..MaxAttempts, baseDelayMs : {500, 1000, 3000}, maxDelayMs : {5000},
     backoffMultiplier : {2}]

\* What one call of fn settles with.
FnValues == {"v1", "v2"}
FnErrors == {"e1", "e2"}

\* delay = Math.min(delay * multiplier, maxDelayMs) with no cap.
nextDelayUncapped(delay, opts) == delay * opts.backoffMultiplier

\* delay = Math.min(delay * (opts.backoffMultiplier ?? 2), opts.maxDelayMs)
nextDelay(delay, opts) == Min(delay * opts.backoffMultiplier, opts.maxDelayMs)

\* return await fn() when fn resolves.
RetryResolves(value) ==
    /\ retrying.pc = "attempt"
    /\ retrying' = [retrying EXCEPT !.pc = "returned", !.settled = value,
                                    !.invoked = Append(@, value)]
    /\ UNCHANGED <<graphVars, orchVars, shaperVars, gatewayVars, controllerVars, watcherVars>>
    /\ UNCHANGED <<cacheVars, queryVars, subscriptionVars, selectVars, poolVars, resolveVars, roundVars, frameVars>>

\* fn rejects: the catch block up to its await, or the break and throw
\* lastError after the last attempt.
RetryRejects(err) ==
    /\ retrying.pc = "attempt"
    /\ retrying' =
          IF retrying.attempt = retrying.opts.maxAttempts
          THEN [retrying EXCEPT !.pc = "threw", !.lastError = err, !.settled = err,
                                !.invoked = Append(@, err)]
          ELSE [retrying EXCEPT !.pc = "waiting", !.lastError = err,
                                !.invoked = Append(@, err),
                                !.waited = Append(@, retrying.delay)]
    /\ UNCHANGED <<graphVars, orchVars, shaperVars, gatewayVars, controllerVars, watcherVars>>
    /\ UNCHANGED <<cacheVars, queryVars, subscriptionVars, selectVars, poolVars, resolveVars, roundVars, frameVars>>

\* The setTimeout fires: delay is updated and the next attempt starts.
RetryTimer ==
    /\ retrying.pc = "waiting"
    /\ retrying' = [retrying EXCEPT !.pc = "attempt", !.attempt = @ + 1,
                                    !.delay = nextDelay(retrying.delay, retrying.opts)]
    /\ UNCHANGED <<graphVars, orchVars, shaperVars, gatewayVars, controllerVars, watcherVars>>
    /\ UNCHANGED <<cacheVars, queryVars, subscriptionVars, selectVars, poolVars, resolveVars, roundVars, frameVars>>

\* retry(fn, options) is called: attempt = 1, delay = opts.baseDelayMs.
InitRetry ==
    /\ \E opts \in RetryOptionSets :
          retrying = [NoRetry EXCEPT !.opts = opts, !.pc = "attempt", !.attempt = 1,
                                     !.delay = opts.baseDelayMs]
    /\ InitOrchIdle /\ InitGraphIdle /\ InitShaperIdle
    /\ InitGatewayIdle /\ InitControllerIdle /\ InitWatcherIdle
    /\ InitCacheIdle /\ InitQueryIdle /\ InitSubscriptionIdle /\ InitSelectIdle
    /\ InitPoolIdle /\ InitResolveIdle /\ InitRoundsIdle /\ InitFrameIdle

NextRetry ==
    \/ \E value \in FnValues : RetryResolves(value)
    \/ \E err \in FnErrors : RetryRejects(err)
    \/ RetryTimer


\* ---------------------------------------------------------- function pool

\* The requests of one run, numbered in the order execute is called.
PoolRequests == 1..MaxRequests

\* this.activeCount <= this.options.maxProcesses
HasCapacityInclusive(p) == p.activeCount <= p.maxProcesses

\* this.activeCount < this.options.maxProcesses
HasCapacity(p) == p.activeCount < p.maxProcesses

\* runProcess and processQueue up to the point where the event loop is free
\* again. failing holds the requests for which spawn("deno") does not start
\* a process: its error event rejects spawnDeno's promise on the next tick,
\* the catch block rejects the request, and the finally block runs
\* processQueue at once.
RECURSIVE runProcess(_, _, _)
RECURSIVE processQueue(_, _)
runProcess(p, req, failing) ==
    LET counted == [p EXCEPT !.activeCount = @ + 1]
    IN  IF req \in failing
        THEN processQueue([counted EXCEPT !.activeCount = @ - 1,
                                          !.settled = @ \cup {req}], failing)
        ELSE [counted EXCEPT !.children = @ \cup {req}, !.spawned = Append(@, req)]

processQueue(p, failing) ==
    IF Len(p.queue) > 0 /\ HasCapacity(p)
    THEN runProcess([p EXCEPT !.queue = Tail(@)], Head(p.queue), failing)
    ELSE p

\* FunctionPool.execute(request)
execute(p, req, failing) ==
    IF HasCapacity(p) THEN runProcess(p, req, failing)
    ELSE [p EXCEPT !.queue = Append(@, req)]

\* A caller calls execute with the next request.
PoolExecute(failing) ==
    /\ pool.executed < MaxRequests
    /\ pool' = execute([pool EXCEPT !.executed = @ + 1], pool.executed + 1, failing)
    /\ UNCHANGED <<graphVars, orchVars, shaperVars, gatewayVars, controllerVars, watcherVars>>
    /\ UNCHANGED <<cacheVars, queryVars, subscriptionVars, selectVars, retryVars, resolveVars, roundVars, frameVars>>

\* The deno process of a request exits: child.on("close") resolves
\* spawnDeno's promise, runProcess resolves or rejects the request, and its
\* finally block decrements activeCount and calls processQueue.
PoolClose(req, failing) ==
    /\ req \in pool.children
    /\ pool' = processQueue([pool EXCEPT !.children = @ \ {req},
                                         !.settled = @ \cup {req},
                                         !.activeCount = @ - 1], failing)
    /\ UNCHANGED <<graphVars, orchVars, shaperVars, gatewayVars, controllerVars, watcherVars>>
    /\ UNCHANGED <<cacheVars, queryVars, subscriptionVars, selectVars, retryVars, resolveVars, roundVars, frameVars>>

\* new FunctionPool(options), with maxProcesses as the configuration schema
\* allows it (an integer from 1).
InitPool ==
    /\ \E m \in 1..MaxProcesses : pool = [NoPool EXCEPT !.maxProcesses = m]
    /\ InitOrchIdle /\ InitGraphIdle /\ InitShaperIdle
    /\ InitGatewayIdle /\ InitControllerIdle /\ InitWatcherIdle
    /\ InitCacheIdle /\ InitQueryIdle /\ InitSubscriptionIdle
    /\ InitSelectIdle /\ InitRetryIdle /\ InitResolveIdle /\ InitRoundsIdle /\ InitFrameIdle

NextPool ==
    \/ \E failing \in SUBSET PoolRequests : PoolExecute(failing)
    \/ \E req \in PoolRequests, failing \in SUBSET PoolRequests : PoolClose(req, failing)


\* ----------------------------------------------------------- resolveQuery

\* The name field of the computed record stored under a cid: the endpoint
\* of RecordOk is named after the computed record c1.
ComputedName(cid) == IF cid = "c1" THEN "ep1" ELSE "ep2"

\* The internal query requests the gateway's proxy may send.
QueryRequests == [deployRef : {D1, D2}, endpointName : {"ep1", "ep9"}]

\* manifest.endpoints.find((e) => e.name === req.endpointName): its index,
\* 0 when there is none.
FindEndpoint(endpoints, name) ==
    LET found == { i \in 1..Len(endpoints) : endpoints[i].name = name }
    IN  IF found = {} THEN 0 ELSE CHOOSE i \in found : \A k \in found : i <= k

\* Controller.resolveQuery up to queryEngine.execute: the computed record
\* whose query it executes, or the Error it throws.
resolveQuery(ds, records, req) ==
    LET key == refKey(req.deployRef)
        manifest == IF MapHas(ds, key) THEN MapGet(ds, key).manifest ELSE NoManifest
        at == IF manifest # NoManifest THEN FindEndpoint(manifest.endpoints, req.endpointName)
              ELSE 0
        named == { cid \in records : ComputedName(cid) = req.endpointName }
    IN  IF at # 0 /\ manifest.endpoints[at].ref.cid \in records
        THEN [executed |-> TRUE, query |-> manifest.endpoints[at].ref.cid]
        ELSE IF named # {}
        THEN [executed |-> TRUE, query |-> CHOOSE cid \in named : TRUE]
        ELSE [executed |-> FALSE, query |-> ""]

\* The queryResolver of the ControllerServer is called with a request.
ResolveQuery(req) ==
    /\ running = 0
    /\ LET answer == resolveQuery(deploys, computedRecords, req)
       IN  queryCall' = [deployRef |-> req.deployRef, endpointName |-> req.endpointName,
                        executed |-> answer.executed, query |-> answer.query]
    /\ UNCHANGED <<orchVars, graphVars, shaperVars, gatewayVars, controllerVars, watcherVars>>
    /\ UNCHANGED <<cacheVars, queryVars, subscriptionVars, selectVars, retryVars, poolVars, roundVars, frameVars>>

InitResolve == InitOrch /\ InitGraphIdle /\ InitShaperIdle /\ InitRestIdle

NextResolve ==
    \/ NextOrch
    \/ \E req \in QueryRequests : ResolveQuery(req)

\* ---------------------------------------------------- subscription manager

SubscriptionNames == {"n1", "n2"}
SubscribedCollections == {"c1", "c2"}
SubscriberIds == {"s1", "s2"}
ChangedRecords == [room : {"x", "y"}]

\* connection.params of a subscriber.
ParamsOf(id) == IF id = "s1" THEN [room |-> "x"] ELSE [room |-> "y"]

\* The filter of a subscription record that has one: room = $params.room.
Evaluate(record, params) == record.room = params.room

SetAdd(members, member) ==
    IF member \in Range(members) THEN members ELSE Append(members, member)

SetDelete(members, member) ==
    LET Other(m) == m # member IN SelectSeq(members, Other)

\* registerSubscription calls made so far.
Registrations ==
    LET Names(i) == Len(collectionToSubscriptions[i].value)
        RECURSIVE Sum(_)
        Sum(i) == IF i = 0 THEN 0 ELSE Names(i) + Sum(i - 1)
    IN  Sum(Len(collectionToSubscriptions))

RegisterSubscription(name, collection, hasFilter) ==
    /\ Registrations < MaxRegistrations
    /\ definitions' = MapSet(definitions, name, [collection |-> collection, filter |-> hasFilter])
    /\ LET subs == IF MapHas(collectionToSubscriptions, collection)
                   THEN MapGet(collectionToSubscriptions, collection)
                   ELSE <<>>
       IN  collectionToSubscriptions' =
              MapSet(collectionToSubscriptions, collection, Append(subs, name))
    /\ subscriptionToSubscribers' = MapSet(subscriptionToSubscribers, name, <<>>)
    /\ notified' = NoChange
    /\ UNCHANGED <<subscribers, broken, connections>>
    /\ UNCHANGED <<graphVars, orchVars, shaperVars, gatewayVars, controllerVars, watcherVars>>
    /\ UNCHANGED <<cacheVars, queryVars, utilVars>>

\* addSubscriber with a connection the transport has just made for a socket:
\* the Map keeps one connection an id, the one set last.
AddSubscriber(name, id) ==
    /\ Len(connections) < MaxConnections
    /\ connections' = Append(connections, [id |-> id, endpointName |-> name, open |-> TRUE])
    /\ subscribers' = subscribers \cup {id}
    /\ subscriptionToSubscribers' =
          IF MapHas(subscriptionToSubscribers, name)
          THEN MapSet(subscriptionToSubscribers, name,
                      SetAdd(MapGet(subscriptionToSubscribers, name), id))
          ELSE subscriptionToSubscribers
    /\ broken' = broken \ {id}
    /\ notified' = NoChange
    /\ UNCHANGED <<definitions, collectionToSubscriptions>>
    /\ UNCHANGED <<graphVars, orchVars, shaperVars, gatewayVars, controllerVars, watcherVars>>
    /\ UNCHANGED <<cacheVars, queryVars, utilVars>>

\* removeSubscriber: both deletes go by the id.
RemoveSubscriber(id) ==
    /\ subscribers' = subscribers \ {id}
    /\ subscriptionToSubscribers' =
          [i \in 1..Len(subscriptionToSubscribers) |->
              [key |-> subscriptionToSubscribers[i].key,
               value |-> SetDelete(subscriptionToSubscribers[i].value, id)]]
    /\ broken' = broken \ {id}
    /\ notified' = NoChange
    /\ UNCHANGED <<definitions, collectionToSubscriptions>>
    /\ UNCHANGED <<graphVars, orchVars, shaperVars, gatewayVars, controllerVars, watcherVars>>
    /\ UNCHANGED <<cacheVars, queryVars, utilVars>>

\* The socket of a connection emits close: the transport runs the handler
\* addSubscriber gave to onClose, removeSubscriber(connection.id).
ConnectionCloses(c) ==
    /\ connections[c].open
    /\ connections' = [connections EXCEPT ![c].open = FALSE]
    /\ RemoveSubscriber(connections[c].id)

\* The socket of a subscriber stops taking writes: from now on ws.send or
\* res.write throws; its close signal has not come yet.
ConnectionBreaks(id) ==
    /\ id \in subscribers \ broken
    /\ broken' = broken \cup {id}
    /\ notified' = NoChange
    /\ UNCHANGED <<definitions, subscribers, collectionToSubscriptions, subscriptionToSubscribers,
                   connections>>
    /\ UNCHANGED <<graphVars, orchVars, shaperVars, gatewayVars, controllerVars, watcherVars>>
    /\ UNCHANGED <<cacheVars, queryVars, utilVars>>

\* The inner loop of onRecordChange: the connection.send calls made for the
\* subscribers of one subscription, ok when the write went through.
RECURSIVE sendTo(_, _, _)
sendTo(ids, subName, record) ==
    IF ids = <<>>
    THEN <<>>
    ELSE LET id == Head(ids)
             definition == MapGet(definitions, subName)
             skipped == \/ id \notin subscribers
                        \/ definition.filter /\ ~Evaluate(record, ParamsOf(id))
         IN  (IF skipped
              THEN <<>>
              ELSE <<[subscriber |-> id, subscription |-> subName, ok |-> id \notin broken]>>)
             \o sendTo(Tail(ids), subName, record)

\* The outer loop of onRecordChange over the names listed for the collection.
RECURSIVE onRecordChange(_, _)
onRecordChange(subscriptionNames, record) ==
    IF subscriptionNames = <<>>
    THEN <<>>
    ELSE LET subName == Head(subscriptionNames)
             sends == IF MapHas(definitions, subName) /\ MapHas(subscriptionToSubscribers, subName)
                      THEN sendTo(MapGet(subscriptionToSubscribers, subName), subName, record)
                      ELSE <<>>
         IN  sends \o onRecordChange(Tail(subscriptionNames), record)

\* onRecordChange: send swallows what the socket throws, so nothing but the
\* sends happens.
OnRecordChange(collection, record) ==
    /\ notified' =
          [collection |-> collection, record |-> record,
           sends |-> IF MapHas(collectionToSubscriptions, collection)
                     THEN onRecordChange(MapGet(collectionToSubscriptions, collection), record)
                     ELSE <<>>]
    /\ UNCHANGED <<definitions, subscribers, collectionToSubscriptions,
                   subscriptionToSubscribers, broken, connections>>
    /\ UNCHANGED <<graphVars, orchVars, shaperVars, gatewayVars, controllerVars, watcherVars>>
    /\ UNCHANGED <<cacheVars, queryVars, utilVars>>

InitSubscription ==
    /\ InitSubscriptionIdle
    /\ InitOrchIdle /\ InitGraphIdle /\ InitShaperIdle
    /\ InitGatewayIdle /\ InitControllerIdle /\ InitWatcherIdle
    /\ InitCacheIdle /\ InitQueryIdle /\ InitUtilIdle

NextSubscription ==
    \/ \E name \in SubscriptionNames, collection \in SubscribedCollections :
          RegisterSubscription(name, collection, name = "n1")
    \/ \E name \in SubscriptionNames, id \in SubscriberIds : AddSubscriber(name, id)
    \/ \E c \in 1..Len(connections) : ConnectionCloses(c)
    \/ \E id \in SubscriberIds : ConnectionBreaks(id)
    \/ \E collection \in SubscribedCollections, record \in ChangedRecords :
          OnRecordChange(collection, record)


\* ========================================================= specifications

\* The deploy orchestrator.
Init == InitOrch /\ InitGraphIdle /\ InitShaperIdle /\ InitRestIdle
Next == NextOrch
Spec == Init /\ [][Next]_vars

\* The same on an event loop that keeps running: a call that can take its
\* next step takes it.
SpecFair == Spec /\ WF_vars(OrchRuns)

\* The manifest builder over every resolver.
InitGraph == InitBuilder /\ InitOrchIdle /\ InitShaperIdle /\ InitRestIdle
SpecGraph == InitGraph /\ [][NextGraph]_vars

\* ManifestBuilder.build over graphs of up to three resolved resources.
InitOrder == InitRefBuilder /\ InitOrchIdle /\ InitShaperIdle /\ InitRestIdle
SpecOrder == InitOrder /\ [][NextGraph]_vars

\* The gateway's traffic shaper.
SpecShaper == InitShaper /\ [][NextShaper]_vars

\* selectDeploy under the rule sets updateRules accepts.
SpecSelect == InitSelect /\ [][NextSelect]_vars

\* The gateway: admin routes, router and XRPC handler.
SpecGateway == InitGateway /\ [][NextGateway]_vars

\* The gateway's admin routes alone.
SpecAdmin == InitAdmin /\ [][NextAdmin]_vars

\* The Controller: Watcher events, deploy state changes and gateway registration.
SpecController == InitController /\ [][NextController]_vars

\* The Watcher and its three transports.
SpecWatcher == InitWatcher /\ [][NextWatcher]_vars

\* The Watcher on an event loop that keeps running: a promise that settled, a
\* timer that is due and a socket event that is pending are handled.
SpecWatcherFair == SpecWatcher /\ WF_vars(WatcherRuns)

\* The poller alone, over every listing.
SpecPoller == InitPoller /\ [][NextPoller]_vars

\* The poller with several poll calls in flight.
SpecRounds == InitRounds /\ [][NextRounds]_vars

\* The query cache under get and set calls as time passes.
SpecCache == InitCache /\ [][NextCache]_vars

\* QueryEngine.executePlan on a join, group, select, orderBy pipeline.
SpecQuery == InitQuery /\ [][NextQuery]_vars

\* The limit step of a planned query.
SpecLimit == InitLimit /\ [][NextLimit]_vars

\* One retry call, from its first attempt to its return or throw.
SpecRetry == InitRetry /\ [][NextRetry]_vars

\* A FunctionPool taking requests while its processes run and exit.
SpecPool == InitPool /\ [][NextPool]_vars

\* Internal query requests to a Controller whose deploys come and go.
SpecResolve == InitResolve /\ [][NextResolve]_vars

\* The SubscriptionManager under registrations, subscribers that come and go,
\* sockets that break and record changes.
SpecSubscription == InitSubscription /\ [][NextSubscription]_vars

\* ================================================================= claims

ActiveRefs(ds) == { ds[i].value.ref : i \in { j \in 1..Len(ds) : ds[j].value.state = "ACTIVE" } }
ActivatedAt(ds, ref) == MapGet(ds, refKey(ref)).activatedAt

\* C1: at every moment the number of deploys in state ACTIVE is at most
\* maxActiveDeploys, under every interleaving of processDeploy and
\* retireDeploy calls.
C1_ActiveAtMostK == Len(getActiveDeploys(deploys)) <= maxActiveDeploys

\* C1 witness: an activation at the limit has drained a deploy and the limit
\* of two is reached.
C1_Witness ==
    /\ maxActiveDeploys = 2
    /\ Len(getActiveDeploys(deploys)) = 2
    /\ \E d \in DeployRefs : StateOf(d) = "DRAINING"
    /\ running = 0

\* C2 (as claimed): whenever the activation step drains a deploy, that deploy
\* has the earliest activation time among the deploys that were ACTIVE.
C2_DrainsOldestActivated ==
    [][\A c \in Calls :
          (calls[c].pc = "drain" /\ calls'[c].pc = "active") =>
              \A d \in ActiveRefs(deploys) :
                  StateIn(deploys', d) = "DRAINING" =>
                      \A e \in ActiveRefs(deploys) :
                          ActivatedAt(deploys, d) <= ActivatedAt(deploys, e)]_vars

StateEdges ==
    { <<"none", "PENDING">>, <<"PENDING", "FETCHING">>, <<"FETCHING", "RESOLVING">>,
      <<"RESOLVING", "BUILDING">>, <<"BUILDING", "ACTIVATING">>,
      <<"ACTIVATING", "ACTIVE">>, <<"ACTIVE", "DRAINING">>, <<"DRAINING", "RETIRED">> }
    \cup { <<s, "FAILED">> : s \in DeployStates \ {"RETIRED", "FAILED"} }

\* C3 (as claimed): every state change of a deploy follows an edge of the
\* state machine, and RETIRED and FAILED are never left.
C3_TransitionsFollowEdges ==
    [][\A d \in DeployRefs :
          StateIn(deploys', d) # StateIn(deploys, d) =>
              <<StateIn(deploys, d), StateIn(deploys', d)>> \in StateEdges]_vars

\* C4 (as claimed): two processDeploy calls for the same deployRef are never
\* in flight together (the second runs after the first has finished, or is
\* rejected), so their transitions cannot interleave.
C4_SameRefCallsSerial ==
    \A a, b \in Calls :
        (a # b /\ calls[a].op = "processDeploy" /\ calls[b].op = "processDeploy")
            => calls[a].ref # calls[b].ref

\* C5: a processDeploy call whose manifest build threw (validation errors or
\* any other exception) never sets ACTIVATING or ACTIVE, resumes in its catch
\* clause, and from there returns normally leaving the deploy FAILED with the
\* error message recorded.
C5_BuildFailureEndsFailed ==
    [][\A c \in Calls :
          /\ calls[c].built.threw => calls[c].pc \notin {"activating", "drain", "active"}
          /\ (calls[c].pc = "await" /\ calls[c].built.threw /\ calls'[c] # calls[c])
                => (calls'[c].pc = "catch" /\ running' = c)
          /\ (calls[c].pc = "catch" /\ calls'[c] # calls[c])
                => /\ calls'[c] = IdleCall
                   /\ running' = 0
                   /\ StateIn(deploys', calls[c].ref) = "FAILED"
                   /\ MapGet(deploys', refKey(calls[c].ref)).error = calls[c].built.error
                   /\ calls[c].built.error # NoError]_vars

\* C5 witness: a deploy is FAILED with the validation errors recorded, the
\* call that failed has returned, and the deploy never had a manifest.
C5_Witness ==
    /\ running = 0
    /\ \A c \in Calls : calls[c] = IdleCall
    /\ StateOf(D1) = "FAILED"
    /\ Status(D1).error.name = "Deploy validation failed"
    /\ Status(D1).manifest = NoManifest
    /\ Status(D1).activatedAt = -1

\* C6: with maxActiveDeploys = 1, an activation drains every deploy that was
\* ACTIVE and leaves the activated deploy as the only ACTIVE one; retireDeploy
\* sets DRAINING and then RETIRED on its deploy and changes the state of no
\* other deploy, so getActiveDeploys() loses at most the retired deploy.
C6_DrainingScenario ==
    [][maxActiveDeploys = 1 =>
        \A c \in Calls :
          /\ (calls[c].pc = "drain" /\ calls'[c].pc = "active")
                => \A d \in ActiveRefs(deploys) : StateIn(deploys', d) = "DRAINING"
          /\ (calls[c].pc = "active" /\ calls'[c] # calls[c])
                => ActiveRefs(deploys') = {calls[c].ref}
          /\ (calls[c].pc = "idle" /\ calls'[c].op = "retireDeploy")
                => /\ StateIn(deploys', calls'[c].ref) = "DRAINING"
                   /\ ActiveRefs(deploys') = ActiveRefs(deploys) \ {calls'[c].ref}
          /\ (calls[c].pc = "retired" /\ calls'[c] # calls[c])
                => /\ StateIn(deploys, calls[c].ref) = "DRAINING"
                   /\ StateIn(deploys', calls[c].ref) = "RETIRED"
                   /\ ActiveRefs(deploys') = ActiveRefs(deploys)]_vars

\* C6 witness: K = 1, D1 was activated, D2 was activated later (which drained
\* D1), then retireDeploy(D1) returned: D1 is RETIRED and only D2 is ACTIVE.
C6_Witness ==
    /\ maxActiveDeploys = 1
    /\ running = 0
    /\ \A c \in Calls : calls[c] = IdleCall
    /\ StateOf(D1) = "RETIRED"
    /\ StateOf(D2) = "ACTIVE"
    /\ Status(D1).activatedAt >= 0
    /\ Status(D2).activatedAt > Status(D1).activatedAt
    /\ Status(D1).retiredAt = Status(D2).activatedAt
    /\ ActiveRefs(deploys) = {D2}

\* The keys a node's non-collection dependencies lead to inside the graph.
GraphSuccessors(graph, key) ==
    IF MapHas(graph.nodes, key)
    THEN { k \in Range(MapKeys(graph.nodes)) :
             \E i \in 1..Len(DepTargets(MapGet(graph.nodes, key))) :
                 refKey(DepTargets(MapGet(graph.nodes, key))[i]) = k }
    ELSE {}

RECURSIVE GraphReach(_, _, _)
GraphReach(graph, keys, n) ==
    IF n = 0 THEN keys
    ELSE GraphReach(graph, keys \cup UNION { GraphSuccessors(graph, k) : k \in keys }, n - 1)

HasCycle(graph) ==
    \E k \in Range(MapKeys(graph.nodes)) :
        k \in GraphReach(graph, GraphSuccessors(graph, k), Len(graph.nodes))

\* C7 (as claimed): a graph with a cycle among its non-collection
\* dependencies does not pass validation, so no manifest is built from it.
C7_CyclicGraphRejected ==
    /\ (mbPhase = "validated" /\ HasCycle(mbGraph)) => Len(mbErrors) > 0
    /\ (mbPhase = "built") => ~HasCycle(mbGraph)

\* C8: every manifest ManifestBuilder.build returns has a resources entry for
\* the refKey of each of its endpoints.
C8_ResourcesCoverEndpoints ==
    mbPhase = "built" =>
        \A i \in 1..Len(mbManifest.endpoints) :
            MapHas(mbManifest.resources, refKey(mbManifest.endpoints[i].ref))

\* C8 witness: a manifest was built for two endpoints on different resources.
C8_Witness ==
    /\ mbPhase = "built"
    /\ Len(mbManifest.endpoints) = 2
    /\ mbManifest.endpoints[1].ref # mbManifest.endpoints[2].ref
    /\ Len(mbManifest.resources) = 2

InRange(rs) == \A i \in 1..Len(rs) : rs[i].weight >= 0 /\ rs[i].weight <= TOTAL_BASIS_POINTS

\* C9: the stored rule list is empty or sums to exactly 10000 with every
\* weight in [0, 10000], and a non-empty posted set is accepted (answered 200)
\* only if it sums to exactly 10000 with every weight in range.
C9_AcceptedRulesSumToTotal ==
    /\ rules = <<>> \/ (SumWeights(rules) = TOTAL_BASIS_POINTS /\ InRange(rules))
    /\ (response.status = 200 /\ Len(request.rules) > 0)
          => (SumWeights(request.rules) = TOTAL_BASIS_POINTS /\ InRange(request.rules))

\* C9 witness: a two-rule set was accepted and is stored, heavier rule first,
\* in the other order than it was posted.
C9_Witness ==
    /\ response.status = 200
    /\ Len(rules) = 2
    /\ rules[1].weight > rules[2].weight
    /\ request.rules[1] = rules[2]
    /\ request.rules[2] = rules[1]

Rejectable(body) ==
    /\ body.hasRules
    /\ Len(body.rules) > 0
    /\ SumWeights(body.rules) # TOTAL_BASIS_POINTS \/ ~InRange(body.rules)

\* C10: a POST /admin/traffic whose rules do not sum to 10000 or hold a weight
\* out of range is answered 400 InvalidRequest with the reason as message,
\* and every POST answered 400 leaves the stored rules as they were.
C10_RejectedUpdateKeepsRules ==
    [][/\ Rejectable(request') =>
            /\ response'.status = 400
            /\ response'.error = "InvalidRequest"
            /\ \/ response'.message = SumMessage(SumWeights(request'.rules))
               \/ \E i \in 1..Len(request'.rules) :
                     /\ ~InRange(<<request'.rules[i]>>)
                     /\ response'.message = RangeMessage(request'.rules[i].weight)
       /\ response'.status = 400 => rules' = rules]_vars

\* C10 witness: with two rules stored, a set summing to 10000 with a weight
\* out of range was rejected, and the two rules are still stored.
C10_Witness ==
    /\ response.status = 400
    /\ Len(request.rules) = 2
    /\ SumWeights(request.rules) = TOTAL_BASIS_POINTS
    /\ ~InRange(request.rules)
    /\ Len(rules) = 2
    /\ selected = rules[1].deploy

\* A step that handled an /xrpc request, and one that handled a POST to
\* /admin/endpoints.
XrpcStep == gwRequest'.op = "xrpc" /\ UNCHANGED <<shaperVars, registeredEndpoints>>
EndpointsStep == gwRequest'.op = "endpoints" /\ UNCHANGED shaperVars

\* C11: an accepted updateRules([]) leaves no rule; with no rule selectDeploy
\* returns null for every sticky key, and every request to a registered
\* endpoint is answered 503 ServiceUnavailable and proxied nowhere.
C11_NoRulesUnavailable ==
    [][/\ (request'.hasRules /\ request'.rules = <<>> /\ request' # request) => rules' = <<>>
       /\ rules = <<>> =>
            \A key \in StickyKeys : selectDeploy(rules, hashToRange(key)) = NoRef
       /\ (XrpcStep /\ rules = <<>> /\ MapHas(registeredEndpoints, gwRequest'.name))
            => /\ gwResponse'.status = 503
               /\ gwResponse'.error = "ServiceUnavailable"
               /\ gwResponse'.proxied = ""
               /\ gwResponse'.deployRef = NoRef]_vars

\* C11 witness: after requests were routed under a rule set, updateRules([])
\* was accepted and a POST to a registered computed endpoint was answered 503.
C11_Witness ==
    /\ rules = <<>>
    /\ request.hasRules /\ request.rules = <<>> /\ response.status = 200
    /\ routed.byKey # {}
    /\ gwRequest.op = "xrpc" /\ gwRequest.httpMethod = "POST"
    /\ MapHas(registeredEndpoints, gwRequest.name)
    /\ MapGet(registeredEndpoints, gwRequest.name).kind = "computed"
    /\ gwResponse.status = 503

\* C12: while the rule set is unchanged, every selection made for the same
\* sticky key returned the same deploy.
C12_StickyKeySameDeploy ==
    \A p, q \in routed.byKey : p[1] = q[1] => p[2] = q[2]

\* C12 witness: under the 70/30 split two callers were each routed more than
\* once, and they are routed to different deploys.
C12_Witness ==
    /\ Len(rules) = 2 /\ routed.rules = rules
    /\ Cardinality(routed.again) = 2
    /\ Cardinality({ p[2] : p \in routed.byKey }) = 2

\* C13: a request for a name that is not registered is answered 404
\* MethodNotFound, whatever the rules, and nothing is proxied.
C13_UnknownMethodNotFound ==
    [][(XrpcStep /\ ~MapHas(registeredEndpoints, gwRequest'.name))
          => /\ gwResponse'.status = 404
             /\ gwResponse'.error = "MethodNotFound"
             /\ gwResponse'.proxied = ""]_vars

\* C13 witness: with other endpoints registered and updateRules([]) accepted,
\* a request for an unregistered name was answered MethodNotFound.
C13_Witness ==
    /\ gwRequest.op = "xrpc"
    /\ ~MapHas(registeredEndpoints, gwRequest.name)
    /\ Len(registeredEndpoints) = 2
    /\ rules = <<>> /\ request.hasRules /\ response.status = 200
    /\ gwResponse.error = "MethodNotFound"

\* The request's method is not the one the registered endpoint's kind accepts.
MethodMismatch(endpoints, req) ==
    /\ MapHas(endpoints, req.name)
    /\ \/ /\ MapGet(endpoints, req.name).kind \in {"computed", "searchIndex", "subscription"}
          /\ req.httpMethod = "POST"
       \/ /\ MapGet(endpoints, req.name).kind = "function"
          /\ req.httpMethod = "GET"

\* C14 (as claimed): in every gateway state a request whose method does not
\* match the registered endpoint's kind is answered 405 InvalidRequest and is
\* not proxied.
C14_MismatchAlways405 ==
    [][(XrpcStep /\ MethodMismatch(registeredEndpoints, gwRequest'))
          => /\ gwResponse'.status = 405
             /\ gwResponse'.error = "InvalidRequest"
             /\ gwResponse'.proxied = ""]_vars

\* C14 (amended): while the rule set is not empty, a request whose method
\* does not match the registered endpoint's kind is answered 405
\* InvalidRequest and is not proxied; with an empty rule set it is answered
\* 503 ServiceUnavailable.
C14_Mismatch405WhenRouted ==
    [][(XrpcStep /\ MethodMismatch(registeredEndpoints, gwRequest'))
          => /\ gwResponse'.proxied = ""
             /\ rules # <<>> => (gwResponse'.status = 405 /\ gwResponse'.error = "InvalidRequest")
             /\ rules = <<>> => gwResponse'.status = 503]_vars

\* C14 witness: with rules in force, a GET to a function endpoint was
\* answered 405.
C14_Witness ==
    /\ rules # <<>>
    /\ gwRequest.op = "xrpc" /\ gwRequest.httpMethod = "GET"
    /\ MapHas(registeredEndpoints, gwRequest.name)
    /\ MapGet(registeredEndpoints, gwRequest.name).kind = "function"
    /\ gwResponse.status = 405 /\ gwResponse.error = "InvalidRequest"

\* The endpoints registered, as a set.
Registered(endpoints) == { endpoints[i].value : i \in 1..Len(endpoints) }

\* C15 (as claimed): after an accepted POST /admin/endpoints with list E the
\* registered endpoints are exactly those of E, after an accepted POST
\* /admin/traffic with list R the rules are exactly those of R, and repeating
\* either call changes nothing.
C15_AdminReplaceAll ==
    [][/\ (EndpointsStep /\ gwResponse'.status = 200)
            => /\ Registered(registeredEndpoints')
                    = Registered(registerEndpoints(<<>>, gwRequest'.endpoints))
               /\ registerEndpoints(registeredEndpoints', gwRequest'.endpoints)
                    = registeredEndpoints'
       /\ (request' # request /\ response'.status = 200)
            => /\ Range(rules') = Range(request'.rules)
               /\ Len(rules') = Len(request'.rules)
               /\ updateRules(rules', request'.rules).rules = rules']_vars

\* ------------------------------------------------------------- C16, C17

\* The step handled: a deploy reported ACTIVE with its manifest, the endpoints
\* request of a registration completing, a Watcher event.
ActiveStep == ctlEvent'.kind = "stateChange" /\ ctlEvent'.state = "ACTIVE" /\ ctlEvent'.hasManifest
EndpointsPush(endpoints) ==
    [call |-> Len(registrations) + 1, path |-> "/admin/endpoints", body |-> endpoints]
TrafficStep == ctlEvent'.kind = "settled" /\ Len(pushes') > Len(pushes)

C17_DeployEventProcessed ==
    [][(/\ ctlEvent'.kind = "event"
        /\ ctlEvent'.collection = "dev.avaas.deploy"
        /\ ctlEvent'.type \in {"create", "update"}
        /\ ctlEvent'.hasRecord)
       => /\ Len(processDeployCalls') = Len(processDeployCalls) + 1
          /\ processDeployCalls'[Len(processDeployCalls')].record = ctlEvent'.deployRecord
      ]_vars

\* -------------------------------------------------------- C18, C19, C20

\* A transport is active while its client or timer is at work: from start()
\* until its loop has ended, its start has failed or its timer was cleared.
ClientActive(client) == client.pc \in {"resolving", "connecting", "open", "waiting"}
ActiveTransports ==
    (IF ClientActive(jetstream) THEN {"jetstream"} ELSE {})
    \cup (IF ClientActive(firehose) THEN {"firehose"} ELSE {})
    \cup (IF poller.timer THEN {"poller"} ELSE {})

\* C18: at every moment at most one of the relay client, the firehose client
\* and the poller is active, whatever the options and however start() ends.
C18_AtMostOneTransport == Cardinality(ActiveTransports) <= 1

\* C18 witness: the firehose could not start, start() went on to the poller,
\* and the poller is the only transport active.
C18_Witness ==
    /\ firehose.pc = "unavailable"
    /\ starting = "returned"
    /\ ActiveTransports = {"poller"}

\* C19: with no relay URL, once a connection attempt of the firehose has
\* failed, and as long as the firehose never opens and the Watcher is not
\* stopped, the poller is eventually started.
C19_FirehoseFailureStartsPoller ==
    (/\ <>(~watcherOptions.jetstreamUrl /\ firehose.errored)
     /\ [](firehose.pc # "open")
     /\ [](~stopped))
    => <>(poller.timer)

\* C20: every event handed to onEvent comes from the watched repository and
\* from a watched collection, in each of the three modes.
C20_OnlyWatchedEvents ==
    \A event \in emitted :
        /\ event.did = WatchDid
        /\ event.collection \in WatchedCollections(watcherOptions)

\* ------------------------------------------------------------------ C21

\* A client starts a connection attempt: it creates a socket.
Connects(client, clientAfter) == clientAfter.pc = "connecting" /\ client.pc # "connecting"

\* C21: once Watcher.stop() was called no transport starts anything again: no
\* client makes a connection attempt and no poller timer is set, whenever
\* stop() came relative to start().
C21_StopIsFinal ==
    [][stopped =>
          /\ ~Connects(jetstream, jetstream')
          /\ ~Connects(firehose, firehose')
          /\ (poller'.timer => poller.timer)]_vars

\* ------------------------------------------------------------------ C27

\* A client connects again after a connection of its own has ended.
Reconnects(client, clientAfter) ==
    Connects(client, clientAfter) /\ client.pc # "resolving"

\* The delay of a client follows the backoff: 1s at first and after an open,
\* doubled up to 30s otherwise.
BackoffStep(client, clientAfter) ==
    /\ (clientAfter.pc = "open" /\ client.pc # "open") => clientAfter.reconnectDelay = 1000
    /\ clientAfter.reconnectDelay \in
          {client.reconnectDelay, 1000, NextDelay(client.reconnectDelay)}
    /\ client.pc = "resolving" => client.reconnectDelay = 1000

\* C27: in relay and in firehose mode every reconnect follows a wait of the
\* backoff delay, which starts at 1s, doubles up to 30s and is 1s again after
\* a successful open.
C27_ReconnectAfterBackoff ==
    [][/\ Reconnects(jetstream, jetstream') => jetstream.pc = "waiting"
       /\ Reconnects(firehose, firehose') => firehose.pc = "waiting"
       /\ BackoffStep(jetstream, jetstream')
       /\ BackoffStep(firehose, firehose')]_vars

\* ------------------------------------------------------------------ C28

\* C28: every firehose reconnect subscribes with the cursor most recently
\* stored in the Cursor Store under the key firehose.
C28_ReconnectFromStoredCursor ==
    [][Reconnects(firehose, firehose') => firehose'.subscribed = cursorStore]_vars

\* ------------------------------------------------------------------ C29

\* The events a poll of collection with listing owes to the known map.
ExpectedEvents(known, collection, listing) ==
    { PollerEvent("create", collection, listing[i].rkey, listing[i].cid) :
        i \in { j \in 1..Len(listing) : ~MapHas(known, PollKey(collection, listing[j].rkey)) } }
    \cup { PollerEvent("update", collection, listing[i].rkey, listing[i].cid) :
             i \in { j \in 1..Len(listing) :
                       /\ MapHas(known, PollKey(collection, listing[j].rkey))
                       /\ MapGet(known, PollKey(collection, listing[j].rkey)) # listing[j].cid } }
    \cup { PollerEvent("delete", collection, key[3], "") :
             key \in { k \in Range(MapKeys(known)) :
                         /\ k[1] = collection
                         /\ \A i \in 1..Len(listing) : listing[i].rkey # k[3] } }

\* The known map holds, for collection, the listing and nothing else.
KnownIs(known, collection, listing) ==
    \A rkey \in {"k1", "k2"} :
        LET key == PollKey(collection, rkey)
            at == { i \in 1..Len(listing) : listing[i].rkey = rkey }
        IN  /\ MapHas(known, key) <=> at # {}
            /\ \A i \in at : MapGet(known, key) = listing[i].cid

\* C29: a completed poll of a collection emits a create for each listed key
\* that was not known, an update for each known key listed with another cid, a
\* delete for each known key of that collection not listed, and nothing else;
\* afterwards the known map of that collection is the listing and the keys of
\* the other collections are as before.
C29_PollEmitsTheDifference ==
    [][(poller' # poller /\ poller'.timer) =>
          LET polled == poller'.polled
              expected == ExpectedEvents(poller.knownCids, polled.collection, polled.listing)
          IN  /\ Range(polled.events) = expected
              /\ Len(polled.events) = Cardinality(expected)
              /\ KnownIs(poller'.knownCids, polled.collection, polled.listing)
              /\ \A other \in PolledCollections \ {polled.collection} :
                    \A rkey \in {"k1", "k2"} :
                       LET key == PollKey(other, rkey)
                       IN  /\ MapHas(poller'.knownCids, key) <=> MapHas(poller.knownCids, key)
                           /\ MapHas(poller.knownCids, key) =>
                                 MapGet(poller'.knownCids, key) = MapGet(poller.knownCids, key)
      ]_vars

\* C29 witness: with a record of the other collection known, a poll found one
\* record changed and one gone: it emitted an update and a delete.
C29_Witness ==
    /\ poller.polled.collection = "dev.avaas.deploy"
    /\ Len(poller.polled.events) = 2
    /\ {poller.polled.events[1].type, poller.polled.events[2].type} = {"update", "delete"}
    /\ MapHas(poller.knownCids, PollKey("dev.avaas.appView", "k1"))

\* ------------------------------------------------------------- C22, C23

\* A get call was made in this step.
GetStep == cacheResult' # cacheResult /\ cacheResult'.key # ""

\* C22: get(key, version) returns the stored value, and leaves the cache as
\* it is, exactly when the key has an entry that is not past its expiresAt
\* and carries the requested version; otherwise it returns a miss, and the
\* entry, where there was one, is removed while the other entries stay.
C22_GetHitOrRemove ==
    [][GetStep =>
          LET key == cacheResult'.key
              valid == /\ MapHas(cache, key)
                       /\ ~(MapGet(cache, key).expiresAt < dateNow)
                       /\ MapGet(cache, key).version = cacheResult'.version
          IN  /\ valid => cacheResult'.result = MapGet(cache, key).value /\ cache' = cache
              /\ ~valid => /\ cacheResult'.result = Undefined
                           /\ ~MapHas(cache', key)
                           /\ cache' = MapDelete(cache, key)
      ]_vars

\* C22 witness: a get found an entry, returned a miss and removed the entry
\* while another entry stayed.
C22_Witness ==
    /\ cacheResult.had
    /\ cacheResult.result = Undefined
    /\ ~MapHas(cache, cacheResult.key)
    /\ Len(cache) > 0

\* C23: the cache never holds more than maxEntries entries.
C23_CacheBounded == Len(cache) <= maxEntries

\* ------------------------------------------------------------------ C24

\* The aye records that satisfy the join predicate with the avast record uri.
Matching(uri) == { i \in 1..Len(pdsRecords.aye) : pdsRecords.aye[i].avast = uri }

ChangeStep == notified' # notified /\ notified'.collection # ""

\* The sends of a handled change that went to id for subName.
SendsTo(change, id, subName) ==
    { i \in 1..Len(change.sends) :
        change.sends[i].subscriber = id /\ change.sends[i].subscription = subName }

\* C25: on a record change in a collection, each subscriber attached to a
\* subscription registered on that collection gets exactly one notification
\* for that subscription when the subscription has no filter or the filter
\* holds for the record and the subscriber's parameters, and none otherwise.
C25_OneNotificationEach ==
    [][ChangeStep =>
          \A subName \in SubscriptionNames :
             (MapHas(definitions, subName)
                /\ MapGet(definitions, subName).collection = notified'.collection) =>
                \A id \in Range(MapGet(subscriptionToSubscribers, subName)) :
                   LET passes == \/ ~MapGet(definitions, subName).filter
                                 \/ Evaluate(notified'.record, ParamsOf(id))
                   IN  Cardinality(SendsTo(notified', id, subName)) = IF passes THEN 1 ELSE 0
      ]_vars

\* C26: a subscriber to whom a delivery failed is no longer held by the
\* manager once the change is handled.
C26_FailedDeliveryRemoves ==
    [][ChangeStep =>
          \A i \in 1..Len(notified'.sends) :
             ~notified'.sends[i].ok => notified'.sends[i].subscriber \notin subscribers'
      ]_vars

\* ------------------------------------------------------------------ C30

\* Every reference of the graph, of an endpoint or of a node, resolved.
AllResolve(graph) ==
    /\ \A i \in 1..Len(graph.endpoints) : MapHas(graph.nodes, refKey(graph.endpoints[i].ref))
    /\ \A i \in 1..Len(graph.nodes) :
          \A j \in 1..Len(DepTargets(graph.nodes[i].value)) :
             MapHas(graph.nodes, refKey(DepTargets(graph.nodes[i].value)[j]))

\* The places of key in graph.order.
PlacesOf(graph, key) == { i \in 1..Len(graph.order) : graph.order[i] = key }

\* C30: for an acyclic graph whose references all resolve, graph.order holds
\* each discovered node exactly once, with every resource a node depends on
\* before the node, and the manifest's resources were resolved in that order.
C30_OrderIsTopological ==
    (mbPhase \in {"graph", "validated", "built"} /\ ~HasCycle(mbGraph) /\ AllResolve(mbGraph)) =>
        /\ Len(mbGraph.order) = Len(mbGraph.nodes)
        /\ \A i \in 1..Len(mbGraph.nodes) :
              /\ Cardinality(PlacesOf(mbGraph, mbGraph.nodes[i].key)) = 1
              /\ \A j \in 1..Len(DepTargets(mbGraph.nodes[i].value)) :
                    \A before \in PlacesOf(mbGraph, refKey(DepTargets(mbGraph.nodes[i].value)[j])) :
                       \A at \in PlacesOf(mbGraph, mbGraph.nodes[i].key) : before < at
        /\ mbPhase = "built" => MapKeys(mbManifest.resources) = mbGraph.order

\* C30 witness: a manifest was built from a chain of three resources that
\* were discovered dependent first and resolved dependency first.
C30_Witness ==
    /\ mbPhase = "built"
    /\ ~HasCycle(mbGraph)
    /\ Len(mbGraph.nodes) = 3
    /\ mbGraph.order = <<mbGraph.nodes[3].key, mbGraph.nodes[2].key, mbGraph.nodes[1].key>>
    /\ MapKeys(mbManifest.resources) = mbGraph.order
\* ------------------------------------------------------------------ C31

\* The cumulative weight of the first i rules.
RECURSIVE Cumulative(_, _)
Cumulative(rs, i) == IF i = 0 THEN 0 ELSE Cumulative(rs, i - 1) + rs[i].weight

\* The first rule whose cumulative weight exceeds value, 0 when none does.
FirstCovering(rs, value) ==
    LET covering == { i \in 1..Len(rs) : Cumulative(rs, i) > value }
    IN  IF covering = {} THEN 0 ELSE CHOOSE i \in covering : \A j \in covering : i <= j

\* C31: after a selectDeploy under a stored set of two or more rules, the
\* value it computed lies in [0, 10000), it returned from inside the loop
\* (never by the last-rule fallback) the deploy of the first rule, in stored
\* (weight-descending) order, whose cumulative weight exceeds the value, and
\* that rule's weight is not 0.
C31_SelectsFirstCovering ==
    draw.drawn =>
        /\ draw.value >= 0 /\ draw.value < TOTAL_BASIS_POINTS
        /\ draw.returned = "loop"
        /\ \A i \in 1..(Len(draw.rules) - 1) : draw.rules[i].weight >= draw.rules[i + 1].weight
        /\ FirstCovering(draw.rules, draw.value) # 0
        /\ selected = draw.rules[FirstCovering(draw.rules, draw.value)].deploy
        /\ draw.rules[FirstCovering(draw.rules, draw.value)].weight # 0

\* C31 witness: under the stored set <<10000, 0>> a selection was made for
\* the key whose hash wraps past bit 31.
C31_Witness ==
    /\ draw.drawn
    /\ Len(draw.rules) = 2 /\ draw.rules[2].weight = 0
    /\ draw.value = hashToRange(<<100, 105, 100, 58, 119, 101, 98, 58, 120>>)
    /\ selected = draw.rules[1].deploy

\* ------------------------------------------------------------------ C32

\* C32: when the query sets a limit, executePlan returns exactly
\* rows[offset ?? 0, (offset ?? 0) + limit) of the rows the preceding steps
\* produced, so never more than limit rows.
C32_LimitSlices ==
    [][(pipelineStep = "limit" /\ pipelineStep' = "returned" /\ queryPlan.query.hasLimit)
          => LET q == queryPlan.query
                 from == IF q.hasOffset THEN q.offset ELSE 0
             IN  /\ Len(queryRows') <= q.limit
                 /\ Len(queryRows') = IF Len(queryRows) - from < 0 THEN 0
                                       ELSE IF Len(queryRows) - from < q.limit
                                            THEN Len(queryRows) - from ELSE q.limit
                 /\ \A i \in 1..Len(queryRows') : queryRows'[i] = queryRows[from + i]]_vars

\* ------------------------------------------------------------------ C33

\* base * 2^(i - 1), capped.
RECURSIVE ExpectedDelay(_, _)
ExpectedDelay(opts, i) ==
    IF i = 1 THEN opts.baseDelayMs
    ELSE Min(2 * ExpectedDelay(opts, i - 1), opts.maxDelayMs)

\* C33: retry invokes fn at most maxAttempts times; every invocation but the
\* last one failed; it returns the value of the first success; the i-th wait
\* is the base delay doubled i - 1 times and capped, one wait between two
\* attempts; after the failure of attempt maxAttempts it throws that
\* attempt's error without another wait.
C33_BoundedBackoff ==
    LET r == retrying
        n == Len(r.invoked)
    IN  r.pc # "idle" =>
          /\ n <= r.opts.maxAttempts
          /\ \A i \in 1..(n - 1) : r.invoked[i] \in FnErrors
          /\ \A i \in 1..Len(r.waited) : r.waited[i] = ExpectedDelay(r.opts, i)
          /\ r.pc = "attempt" => (n = r.attempt - 1 /\ Len(r.waited) = n)
          /\ r.pc = "waiting" => (n = r.attempt /\ Len(r.waited) = n /\ n < r.opts.maxAttempts)
          /\ r.pc = "returned" =>
                (r.settled \in FnValues /\ r.settled = r.invoked[n] /\ Len(r.waited) = n - 1)
          /\ r.pc = "threw" =>
                /\ n = r.opts.maxAttempts
                /\ r.settled \in FnErrors /\ r.settled = r.invoked[n]
                /\ Len(r.waited) = n - 1

\* C33 witness: with the PdsResolver's options three attempts failed, after
\* waits of 500 and 1000, and the third error was thrown.
C33_Witness ==
    /\ retrying.pc = "threw"
    /\ retrying.opts = [maxAttempts |-> 3, baseDelayMs |-> 500, maxDelayMs |-> 5000,
                        backoffMultiplier |-> 2]
    /\ retrying.invoked = <<"e1", "e1", "e2">>
    /\ retrying.waited = <<500, 1000>>
    /\ retrying.settled = "e2"

\* ------------------------------------------------------------------ C34

\* The requests a step took off the front of the queue.
TakenFromQueue == SubSeq(pool.queue, 1, Len(pool.queue) - Len(pool'.queue))

\* C34: never more than maxProcesses deno processes run, and while requests
\* are queued exactly maxProcesses run; an execute call at the limit queues
\* its request and starts nothing; the exit of a process starts at most one
\* process, for the first queued request whose spawn succeeds, and takes
\* from the queue only that request and the ones in front of it.
C34_PoolBounded ==
    /\ [](/\ Cardinality(pool.children) <= pool.maxProcesses
          /\ Len(pool.queue) > 0 => Cardinality(pool.children) = pool.maxProcesses)
    /\ [][/\ (pool'.executed = pool.executed + 1
                 /\ Cardinality(pool.children) = pool.maxProcesses)
              => (pool'.queue = Append(pool.queue, pool'.executed)
                    /\ pool'.children = pool.children)
          /\ (pool'.executed = pool.executed /\ pool' # pool)
              => /\ Cardinality(pool'.children \ pool.children) <= 1
                 /\ Len(pool'.queue) <= Len(pool.queue)
                 /\ pool'.queue = SubSeq(pool.queue, Len(pool.queue) - Len(pool'.queue) + 1,
                                         Len(pool.queue))
                 /\ \A req \in pool'.children \ pool.children :
                       /\ TakenFromQueue # <<>>
                       /\ req = TakenFromQueue[Len(TakenFromQueue)]
                 /\ \A i \in 1..Len(TakenFromQueue) :
                       TakenFromQueue[i] \in pool'.children \cup pool'.settled]_vars

\* C34 witness: with maxProcesses = 2 and two requests queued, a process
\* exited and the first queued request took its place.
C34_Witness ==
    /\ pool.maxProcesses = 2
    /\ pool.spawned = <<1, 2, 3>>
    /\ pool.children = {2, 3}
    /\ pool.queue = <<4>>

\* ------------------------------------------------------------------ C35

\* C35: in relay, firehose and polling mode alike, once start() has started
\* a transport its promise is eventually resolved, while the transport runs
\* and without stop() being called.
C35_StartCompletes ==
    [](~stopped) =>
        ((starting # "notCalled" /\ ActiveTransports # {}) ~> (starting = "returned"))

\* ------------------------------------------------------------------ C36

\* processDeploy is running for D1 with the record whose one endpoint is the
\* computed record c1.
ProcessingD1 ==
    \E c \in Calls :
        calls[c].op = "processDeploy" /\ calls[c].ref = D1 /\ calls[c].record = RecordOk

\* C36: when the computed record c1 is delivered at some time, before or
\* after the deploy event, a deploy whose record refers to c1 alone
\* eventually reaches ACTIVE.
C36_DeployEventuallyActive ==
    <>("c1" \in computedRecords) => (ProcessingD1 ~> (StateOf(D1) = "ACTIVE"))

\* ------------------------------------------------------------------ C37

\* The deploy of a request is known, neither RETIRED nor FAILED, and its
\* manifest has an endpoint of the requested name.
Servable(ds, deployRef, endpointName) ==
    /\ StateIn(ds, deployRef) \notin {"none", "RETIRED", "FAILED"}
    /\ FindEndpoint(MapGet(ds, refKey(deployRef)).manifest.endpoints, endpointName) # 0

\* C37: resolveQuery executes a query only for a request whose deployRef is
\* a deploy the orchestrator knows, neither RETIRED nor FAILED, with the
\* requested endpoint name in its manifest.
C37_QueryOnlyForLiveDeploy ==
    [][(queryCall' # queryCall /\ queryCall'.executed)
          => Servable(deploys, queryCall'.deployRef, queryCall'.endpointName)]_vars

\* ------------------------------------------------------------------ C38

\* The connection onRecordChange sends to for an id: the one set last.
HeldFor(id) ==
    LET same == { c \in 1..Len(connections) : connections[c].id = id }
    IN  CHOOSE c \in same : \A d \in same : d <= c

\* Connection c is open, is the one the manager holds for its id, and its id
\* is listed for its subscription: a change of the subscription reaches it.
Attached(c) ==
    /\ connections[c].open
    /\ connections[c].id \in subscribers
    /\ HeldFor(connections[c].id) = c
    /\ MapHas(subscriptionToSubscribers, connections[c].endpointName)
    /\ connections[c].id \in Range(MapGet(subscriptionToSubscribers, connections[c].endpointName))

\* Connection c signals its close in this step.
CloseStep(c) == connections[c].open /\ connections' = [connections EXCEPT ![c].open = FALSE]

\* C38: when a connection signals close, every other connection that is open
\* and attached stays attached, a second connection of the same caller (same
\* subscriber id) included.
C38_OnlyClosedConnectionRemoved ==
    [][\A c \in 1..Len(connections) :
          CloseStep(c) =>
             \A d \in 1..Len(connections) \ {c} : Attached(d) => Attached(d)'
      ]_vars

\* ------------------------------------------------------------------ C39

\* The event sent last for the key, "none" before the first.
LastFor(last, key) == IF MapHas(last, key) THEN MapGet(last, key) ELSE "none"

\* An event of this type may follow one of that type for the same key.
Follows(before, type) ==
    IF type = "create" THEN before \in {"none", "delete"}
    ELSE before \in {"create", "update"}

\* C39: for each key, the events the poller sends follow the record protocol
\* with several poll calls in flight: a create comes first or after a delete,
\* an update or a delete after a create or an update, so two creates of one
\* key have a delete between them.
C39_EventsFollowProtocol ==
    [][(rounds'.last # rounds.last \/ poller'.polled # poller.polled) =>
          LET events == poller'.polled.events
          IN  \A i \in 1..Len(events) :
                 Follows(LastFor(lastAfter(rounds.last, SubSeq(events, 1, i - 1)),
                                 PollKey(events[i].collection, events[i].rkey)),
                         events[i].type)
      ]_vars

\* C39 witness: with another poll call still awaiting the PDS, an answer made
\* the poller send the create of a key it had sent a delete for before.
C39_Witness ==
    /\ Len(rounds.polls) >= 1
    /\ \E i \in 1..Len(poller.polled.events) :
          /\ poller.polled.events[i].type = "create"
          /\ PollKey(poller.polled.events[i].collection, poller.polled.events[i].rkey)
                \in rounds.gone

\* ------------------------------------------------------------------ C40

\* C40: when the sequence number of a firehose message was stored, every
\* event decoded from the message has been handed to the event callback.
C40_CursorAfterDelivery ==
    frameCall.stored => frameCall.handed = frameCall.decoded

====
